---- MODULE Spec2Model ----
(***************************************************************************)
(* Model of the PULSE conversation progression and scoring engine of the   *)
(* chat endpoint (src/orchestrator/chat/__init__.py): the stage detector,  *)
(* the misstep detector, the trust accumulator, the outcome classifier,    *)
(* the scorecard generator and the chat handler that threads the stored    *)
(* per-session state through them.                                         *)
(*                                                                         *)
(* Text is modelled as TLA+ strings, character by character.  Fractional   *)
(* scores (0.75, 1.5, ...) are modelled as integers in hundredths.         *)
(***************************************************************************)
EXTENDS Integers, Sequences, FiniteSets, TLC

(***************************************************************************)
(* Bounds of the model.                                                    *)
(***************************************************************************)
\* Number of chat turns taken by one session.
MaxTurns == 4
\* Longest misstep history given to an engine function called on its own.
MaxMissteps == 4
\* Longest trainee-message list given to the stage detector called on its own.
MaxMessages == 2

(***************************************************************************)
(* Program constants.                                                      *)
(***************************************************************************)
TRUST_WIN_THRESHOLD == 7
TRUST_LOSS_THRESHOLD == 2
INITIAL_TRUST == 5
MAX_HISTORY_MESSAGES == 20

(***************************************************************************)
(* Inputs.                                                                 *)
(***************************************************************************)
Sessions == {"s1"}

\* A second session, for what happens to one session while another is
\* served; the blobs of every session are kept under its own id.
OtherSessions == {"s2"}
AllSessions == Sessions \cup OtherSessions

\* Message texts a trainee sends during a session.
TurnMessages ==
    { "What brings you in today?",
      "It sounds like that's why I'd recommend this. Would you like to proceed?",
      "That's why you must decide now",
      "It sounds like our best deal, buy now, hurry",
      "I'd recommend you buy today",
      "Would you like to decide today? Don't wait" }

\* Message texts given to the engine functions called on their own.
Messages ==
    TurnMessages \cup
    { "It sounds like you want better sleep.",
      "That's why this model helps.",
      "I'd recommend the simpler option.",
      "Would you like to get started?",
      "Tell me about your sleep",
      "Let's close this deal right now",
      "Hello there",
      "You must decide, act now!",
      "Limited time: you will regret it, act now" }

\* Message texts of the turns on which the response generator raises.
FailedTurnMessages == {"What brings you in today?"}

Personas == {"Relater"}

\* Chat requests that are in flight at the same time, all for one session,
\* and the messages they carry.
Requests == {"r1", "r2"}

\* Turns of a session that goes through every stage and on, and the
\* messages its trainee sends: one that matches a pattern of every stage
\* 2..5, one that is a pressure tactic, one that is neither.
MaxDeepTurns == 7
MaxFaultTurns == 4
DeepMessages ==
    { "It sounds like that's why I'd recommend this. Would you like to proceed?",
      "That's why you must decide now",
      "What brings you in today?" }

\* Turns of a long session, one that outgrows the history main keeps, and
\* the messages its trainee sends.
MaxLongTurns == 12
LongMessages == {"What brings you in today?", "That's why you must decide now"}

\* Turns each of two sessions takes while the other is being served.
MaxIsoTurns == 2
ConcurrentMessages ==
    { "What brings you in today?",
      "It sounds like that's why I'd recommend this. Would you like to proceed?",
      "That's why you must decide now" }

\* Texts the conversational-response generator answers with.
AIResponses == {"I am not sure yet."}

\* Request bodies that main rejects before any processing: a body that is
\* not JSON, a body without sessionId, a message that strips to nothing.
BadRequests ==
    { [json_ok |-> FALSE, sessionId |-> "s1", message |-> "Hello there"],
      [json_ok |-> TRUE, sessionId |-> "", message |-> "Hello there"],
      [json_ok |-> TRUE, sessionId |-> "s1", message |-> ""],
      [json_ok |-> TRUE, sessionId |-> "s1", message |-> "   "] }

(***************************************************************************)
(* Strings: str.lower(), str.strip() and the substring test `x in s`.      *)
(***************************************************************************)
Min(a, b) == IF a <= b THEN a ELSE b
Max(a, b) == IF a >= b THEN a ELSE b

UpperLetters == "ABCDEFGHIJKLMNOPQRSTUVWXYZ"
LowerLetters == "abcdefghijklmnopqrstuvwxyz"

CharAt(s, i) == SubSeq(s, i, i)

LowerChar(c) ==
    IF \E i \in 1..Len(UpperLetters) : CharAt(UpperLetters, i) = c
    THEN CharAt(LowerLetters, CHOOSE i \in 1..Len(UpperLetters) : CharAt(UpperLetters, i) = c)
    ELSE c

RECURSIVE lower_chars(_)
lower_chars(s) ==
    IF s = "" THEN ""
    ELSE LowerChar(CharAt(s, 1)) \o lower_chars(SubSeq(s, 2, Len(s)))

\* The texts the model lower-cases, with their lower-case forms computed
\* once; lower(s) is lower_chars(s) for every s.
BehaviorLabels ==
    { "asks discovery questions", "demonstrates active listening",
      "connects feature to customer need", "presents focused recommendation",
      "asks for commitment/next step" }
KnownTexts == Messages \cup AIResponses \cup BehaviorLabels
LowerTable == [s \in KnownTexts |-> lower_chars(s)]
lower(s) == IF s \in KnownTexts THEN LowerTable[s] ELSE lower_chars(s)

RECURSIVE strip(_)
strip(s) ==
    IF s = "" THEN ""
    ELSE IF CharAt(s, 1) = " " THEN strip(SubSeq(s, 2, Len(s)))
    ELSE IF CharAt(s, Len(s)) = " " THEN strip(SubSeq(s, 1, Len(s) - 1))
    ELSE s

\* The text t occurs in s at position i.
HasAt(s, i, t) ==
    /\ i + Len(t) - 1 <= Len(s)
    /\ SubSeq(s, i, i + Len(t) - 1) = t

\* Python's `t in s` for strings.
Contains(s, t) == \E i \in 1..(Len(s) + 1) : HasAt(s, i, t)

(***************************************************************************)
(* Regular expressions.  A pattern is a sequence of elements; an element   *)
(* is a group of alternative literal texts (possibly optional, `(..)?`)    *)
(* or `.*`.  Every pattern of the source has this shape.  re.search asks   *)
(* whether the pattern matches at some position of the text.               *)
(***************************************************************************)
Lit(t) == [alts |-> <<t>>, opt |-> FALSE, star |-> FALSE]
Alt(a) == [alts |-> a, opt |-> FALSE, star |-> FALSE]
Opt(a) == [alts |-> a, opt |-> TRUE, star |-> FALSE]
DotStar == [alts |-> <<>>, opt |-> FALSE, star |-> TRUE]

RECURSIVE MatchFrom(_, _, _, _)
MatchFrom(pattern, k, s, i) ==
    IF k > Len(pattern) THEN TRUE
    ELSE LET e == pattern[k] IN
         IF e.star
         THEN \E j \in i..(Len(s) + 1) : MatchFrom(pattern, k + 1, s, j)
         ELSE \/ e.opt /\ MatchFrom(pattern, k + 1, s, i)
              \/ \E a \in 1..Len(e.alts) :
                    /\ HasAt(s, i, e.alts[a])
                    /\ MatchFrom(pattern, k + 1, s, i + Len(e.alts[a]))

re_search(pattern, s) == \E i \in 1..(Len(s) + 1) : MatchFrom(pattern, 1, s, i)

(***************************************************************************)
(* Pattern library.                                                        *)
(***************************************************************************)
\* CRITICAL_MISSTEPS, in the order of the dict; min_stage is the value that
\* misstep_info.get("min_stage", 1) yields.
CRITICAL_MISSTEPS == <<
    [ id |-> "pushy_early_close",
      patterns |-> <<
        << Alt(<<"buy", "purchase", "order", "sign up">>), Lit(" "),
           Alt(<<"now", "today", "right now">>) >>,
        << Alt(<<"ready to", "want to">>), Lit(" "),
           Alt(<<"buy", "purchase", "order">>) >>,
        << Lit("let's "), Alt(<<"close", "finalize", "complete">>), Lit(" "),
           Alt(<<"this", "the deal">>) >> >>,
      min_stage |-> 1,
      max_stage |-> 3,
      trust_penalty |-> -3,
      response_hint |-> "I'm not ready to make a decision yet. I still have questions." ],
    [ id |-> "pressure_tactics",
      patterns |-> <<
        << Alt(<<"limited time", "act now", "don't wait", "hurry">>) >>,
        << Alt(<<"you need to", "you have to", "you must">>), Lit(" decide") >>,
        << Alt(<<"everyone", "most people">>), Lit(" "),
           Alt(<<"buys", "chooses", "gets">>) >>,
        << Lit("you"), Alt(<<"'ll", " will">>), Lit(" regret") >> >>,
      min_stage |-> 1,
      max_stage |-> 5,
      trust_penalty |-> -3,
      response_hint |-> "I don't appreciate being pressured. I need to think about this." ],
    [ id |-> "ignoring_needs",
      patterns |-> <<
        << Alt(<<"our best", "most popular", "top selling">>) >>,
        << Alt(<<"you should", "you need">>), Lit(" "),
           Alt(<<"the", "our", "this">>) >> >>,
      min_stage |-> 1,
      max_stage |-> 2,
      trust_penalty |-> -2,
      response_hint |-> "That's not really what I'm looking for. Did you hear what I said?" ] >>

\* PULSE_STAGES: the name of each stage.
PULSE_STAGES ==
    [s \in 1..5 |->
        [name |-> CASE s = 1 -> "Probe"
                    [] s = 2 -> "Understand"
                    [] s = 3 -> "Link"
                    [] s = 4 -> "Simplify"
                    [] s = 5 -> "Earn"]]

\* The local table stage_patterns of _analyze_pulse_stage_quick.
stage_patterns ==
    [s \in 1..5 |->
        CASE s = 1 ->
            [ name |-> "Probe",
              patterns |-> <<
                << Lit("what "), Alt(<<"brings", "brought">>), Lit(" you") >>,
                << Alt(<<"tell", "talk">>), Lit(" me "), Alt(<<"about", "more">>) >>,
                << Lit("how "), Alt(<<"do", "does", "can", "would">>) >>,
                << Lit("what "), Alt(<<"are", "is">>), Lit(" "), Alt(<<"your", "the">>) >>,
                << Alt(<<"could", "can", "would">>), Lit(" you "),
                   Alt(<<"tell", "describe", "explain">>) >>,
                << Lit("what"), DotStar, Lit("?") >>,
                << Lit("how"), DotStar, Lit("?") >>,
                << Lit("why"), DotStar, Lit("?") >> >>,
              behavior |-> "asks discovery questions",
              requires_question |-> TRUE ]
        [] s = 2 ->
            [ name |-> "Understand",
              patterns |-> <<
                << Lit("so "), Alt(<<"you're", "you are", "you">>), Lit(" "),
                   Alt(<<"saying", "looking", "wanting", "need">>) >>,
                << Opt(<<"it ">>), Lit("sounds like") >>,
                << Opt(<<"i ">>), Lit("hear "), Alt(<<"that", "you">>) >>,
                << Opt(<<"let me ", "to ">>), Lit("make sure i "),
                   Alt(<<"understand", "got", "have">>) >>,
                << Alt(<<"you mentioned", "you said", "you told me">>) >>,
                << Lit("if i "), Alt(<<"understand", "heard">>), Lit(" "),
                   Opt(<<"you ">>), Alt(<<"correctly", "right">>) >>,
                << Lit("what i"), Alt(<<"'m", " am">>), Lit(" hearing is") >> >>,
              behavior |-> "demonstrates active listening",
              requires_question |-> FALSE ]
        [] s = 3 ->
            [ name |-> "Link",
              patterns |-> <<
                << Alt(<<"since", "because">>), Lit(" you "),
                   Alt(<<"said", "mentioned", "told", "need">>) >>,
                << Lit("based on what you "),
                   Alt(<<"said", "mentioned", "told", "shared">>) >>,
                << Lit("that's "), Alt(<<"why", "exactly why">>) >>,
                << Alt(<<"this", "that", "our", "the">>), Lit(" "), DotStar,
                   Alt(<<"will", "can", "helps", "help", "addresses", "solves">>) >>,
                << Lit("for "), Alt(<<"your", "someone with your", "people who">>) >>,
                << Lit("given "), Alt(<<"what you", "your">>) >> >>,
              behavior |-> "connects feature to customer need",
              requires_question |-> FALSE ]
        [] s = 4 ->
            [ name |-> "Simplify",
              patterns |-> <<
                << Lit("i"), Alt(<<"'d", " would">>), Lit(" recommend") >>,
                << Lit("my recommendation "), Alt(<<"is", "would be">>) >>,
                << Lit("the best "), Alt(<<"option", "choice", "fit", "solution">>),
                   Lit(" "), Alt(<<"for you", "would be">>) >>,
                << Alt(<<"compared to", "the difference between">>) >>,
                << Alt(<<"simpler", "easier", "straightforward", "simple">>) >>,
                << Alt(<<"one", "single", "specific">>), Lit(" "),
                   Alt(<<"option", "recommendation", "solution">>) >>,
                << Lit("to "), Alt(<<"simplify", "make it easy", "keep it simple">>) >> >>,
              behavior |-> "presents focused recommendation",
              requires_question |-> FALSE ]
        [] s = 5 ->
            [ name |-> "Earn",
              patterns |-> <<
                << Lit("would you like to") >>,
                << Lit("shall we "),
                   Alt(<<"proceed", "move forward", "get started", "schedule">>) >>,
                << Opt(<<"are you ">>), Lit("ready to") >>,
                << Lit("let's "),
                   Alt(<<"schedule", "set up", "get started", "proceed", "do this">>) >>,
                << Lit("can i "), Alt(<<"set", "schedule", "book", "get">>), Lit(" "),
                   Alt(<<"that", "this", "you">>) >>,
                << Lit("does that "), Alt(<<"work", "sound good">>), Lit(" for you") >>,
                << Alt(<<"want", "like">>), Lit(" to "),
                   Alt(<<"try", "test", "demo", "see">>) >>,
                << Lit("what do you "), Alt(<<"think", "say">>), Lit("?") >> >>,
              behavior |-> "asks for commitment/next step",
              requires_question |-> FALSE ]]


(***************************************************************************)
(* The `for pattern in patterns: if re.search(pattern, text)` loops of the *)
(* two detectors: some pattern of the list matches (the loop stops at the  *)
(* first one that does).  For the lower-cased known texts the answers are  *)
(* computed once and kept in tables.                                       *)
(***************************************************************************)
AnyPatternMatches(patterns, text) ==
    \E k \in 1..Len(patterns) : re_search(patterns[k], text)

KnownLowerTexts == {LowerTable[s] : s \in Messages}

StageMatchTable ==
    [s \in 1..5 |->
        [t \in KnownLowerTexts |-> AnyPatternMatches(stage_patterns[s].patterns, t)]]

StagePatternMatches(stage, text) ==
    IF text \in KnownLowerTexts
    THEN StageMatchTable[stage][text]
    ELSE AnyPatternMatches(stage_patterns[stage].patterns, text)

MisstepMatchTable ==
    [k \in 1..Len(CRITICAL_MISSTEPS) |->
        [t \in KnownLowerTexts |-> AnyPatternMatches(CRITICAL_MISSTEPS[k].patterns, t)]]

MisstepPatternMatches(k, text) ==
    IF text \in KnownLowerTexts
    THEN MisstepMatchTable[k][text]
    ELSE AnyPatternMatches(CRITICAL_MISSTEPS[k].patterns, text)

(***************************************************************************)
(* Stage detector.  The result is the pair the source returns, as a record *)
(* [stage, behaviors].                                                     *)
(***************************************************************************)
\* Variant: every later stage's patterns are scanned and the highest stage
\* that matches is taken, so one message can skip stages.
analyze_pulse_stage_quick_skips(trainee_messages, current_stage) ==
    IF Len(trainee_messages) = 0
    THEN [stage |-> current_stage, behaviors |-> <<>>]
    ELSE LET latest_message == lower(trainee_messages[Len(trainee_messages)])
             matching == { st \in DOMAIN stage_patterns :
                             /\ st > current_stage
                             /\ StagePatternMatches(st, latest_message) }
             top == CHOOSE st \in matching : \A other \in matching : other <= st
         IN  IF current_stage >= 5 THEN [stage |-> 5, behaviors |-> <<>>]
             ELSE IF matching = {} THEN [stage |-> current_stage, behaviors |-> <<>>]
             ELSE [stage |-> top, behaviors |-> <<stage_patterns[top].behavior>>]

\* Variant: at stage 5 the Earn patterns are checked again and the behavior
\* is reported again.
analyze_pulse_stage_quick_rechecks(trainee_messages, current_stage) ==
    IF Len(trainee_messages) = 0
    THEN [stage |-> current_stage, behaviors |-> <<>>]
    ELSE LET latest_message == lower(trainee_messages[Len(trainee_messages)])
             next_stage == IF current_stage >= 5 THEN 5 ELSE current_stage + 1
         IN  IF next_stage \notin DOMAIN stage_patterns
             THEN [stage |-> current_stage, behaviors |-> <<>>]
             ELSE IF stage_patterns[next_stage].requires_question
                     /\ ~Contains(latest_message, "?")
             THEN [stage |-> current_stage, behaviors |-> <<>>]
             ELSE IF StagePatternMatches(next_stage, latest_message)
             THEN [stage |-> next_stage,
                   behaviors |-> <<stage_patterns[next_stage].behavior>>]
             ELSE [stage |-> Min(current_stage, 5), behaviors |-> <<>>]

\* Variant: every message of the history is tried against the next stage.
analyze_pulse_stage_quick_any_message(trainee_messages, current_stage) ==
    IF Len(trainee_messages) = 0
    THEN [stage |-> current_stage, behaviors |-> <<>>]
    ELSE LET next_stage == current_stage + 1 IN
         IF current_stage >= 5
         THEN [stage |-> 5, behaviors |-> <<>>]
         ELSE IF next_stage \notin DOMAIN stage_patterns
         THEN [stage |-> current_stage, behaviors |-> <<>>]
         ELSE IF \E i \in 1..Len(trainee_messages) :
                    /\ stage_patterns[next_stage].requires_question
                           => Contains(lower(trainee_messages[i]), "?")
                    /\ StagePatternMatches(next_stage, lower(trainee_messages[i]))
         THEN [stage |-> next_stage, behaviors |-> <<stage_patterns[next_stage].behavior>>]
         ELSE [stage |-> current_stage, behaviors |-> <<>>]

\* Variant: an advance reports the label of the stage left, not of the
\* stage advanced to.
analyze_pulse_stage_quick_old_label(trainee_messages, current_stage) ==
    IF Len(trainee_messages) = 0
    THEN [stage |-> current_stage, behaviors |-> <<>>]
    ELSE LET latest_message == lower(trainee_messages[Len(trainee_messages)])
             next_stage == current_stage + 1
         IN  IF current_stage >= 5
             THEN [stage |-> 5, behaviors |-> <<>>]
             ELSE IF next_stage \notin DOMAIN stage_patterns
             THEN [stage |-> current_stage, behaviors |-> <<>>]
             ELSE IF StagePatternMatches(next_stage, latest_message)
             THEN [stage |-> next_stage,
                   behaviors |-> IF current_stage \in DOMAIN stage_patterns
                                 THEN <<stage_patterns[current_stage].behavior>>
                                 ELSE <<>>]
             ELSE [stage |-> current_stage, behaviors |-> <<>>]

analyze_pulse_stage_quick(trainee_messages, current_stage) ==
    IF Len(trainee_messages) = 0
    THEN [stage |-> current_stage, behaviors |-> <<>>]
    ELSE LET latest_message == lower(trainee_messages[Len(trainee_messages)])
             next_stage == current_stage + 1
         IN  IF current_stage >= 5
             THEN [stage |-> 5, behaviors |-> <<>>]
             ELSE IF next_stage \notin DOMAIN stage_patterns
             THEN [stage |-> current_stage, behaviors |-> <<>>]
             ELSE LET next_stage_info == stage_patterns[next_stage] IN
                  IF next_stage_info.requires_question /\ ~Contains(latest_message, "?")
                  THEN [stage |-> current_stage, behaviors |-> <<>>]
                  ELSE IF StagePatternMatches(next_stage, latest_message)
                  THEN [stage |-> next_stage, behaviors |-> <<next_stage_info.behavior>>]
                  ELSE [stage |-> current_stage, behaviors |-> <<>>]

(***************************************************************************)
(* Misstep detector.                                                       *)
(***************************************************************************)
\* Variant: only the lower end of the stage range is checked.
misstep_applies_no_max(misstep_info, current_stage) ==
    ~(current_stage < misstep_info.min_stage)

\* `if current_stage < min_stage or current_stage > max_stage: continue`.
misstep_applies(misstep_info, current_stage) ==
    ~(current_stage < misstep_info.min_stage \/ current_stage > misstep_info.max_stage)

\* Variant: the pattern loop does not stop at the first match and appends
\* one record for every matching pattern.
matched_records_per_pattern(k, message_lower) ==
    LET misstep_info == CRITICAL_MISSTEPS[k]
        hits == {p \in 1..Len(misstep_info.patterns) :
                    re_search(misstep_info.patterns[p], message_lower)}
    IN  [i \in 1..Cardinality(hits) |->
            [id |-> misstep_info.id,
             penalty |-> misstep_info.trust_penalty,
             hint |-> misstep_info.response_hint]]

\* The pattern loop of one misstep definition: the first matching pattern
\* appends one record and breaks.
matched_records(k, message_lower) ==
    LET misstep_info == CRITICAL_MISSTEPS[k] IN
    IF MisstepPatternMatches(k, message_lower)
    THEN <<[id |-> misstep_info.id,
            penalty |-> misstep_info.trust_penalty,
            hint |-> misstep_info.response_hint]>>
    ELSE <<>>

RECURSIVE DetectFrom(_, _, _)
DetectFrom(k, message_lower, current_stage) ==
    IF k > Len(CRITICAL_MISSTEPS) THEN <<>>
    ELSE LET rest == DetectFrom(k + 1, message_lower, current_stage) IN
         IF ~misstep_applies(CRITICAL_MISSTEPS[k], current_stage)
         THEN rest
         ELSE matched_records(k, message_lower) \o rest

\* Variant: the stage ranges are tested against the stage after this one.
detect_missteps_next_stage(message, current_stage) ==
    DetectFrom(1, lower(message), IF current_stage < 5 THEN current_stage + 1 ELSE 5)

detect_missteps(message, current_stage) == DetectFrom(1, lower(message), current_stage)

(***************************************************************************)
(* Trust accumulator.                                                      *)
(***************************************************************************)
\* Variant: a commitment question is rewarded twice.
BehaviorReward_double_commitment(behavior) ==
    LET b == lower(behavior) IN
    IF Contains(b, "discovery question") THEN 1
    ELSE IF Contains(b, "active listening") THEN 1
    ELSE IF Contains(b, "connects feature") THEN 1
    ELSE IF Contains(b, "focused recommendation") THEN 1
    ELSE IF Contains(b, "commitment") THEN 2
    ELSE 0

BehaviorReward(behavior) ==
    LET b == lower(behavior) IN
    IF Contains(b, "discovery question") THEN 1
    ELSE IF Contains(b, "active listening") THEN 1
    ELSE IF Contains(b, "connects feature") THEN 1
    ELSE IF Contains(b, "focused recommendation") THEN 1
    ELSE IF Contains(b, "commitment") THEN 1
    ELSE 0

RECURSIVE SumRewards(_)
SumRewards(behaviors) ==
    IF Len(behaviors) = 0 THEN 0
    ELSE BehaviorReward(Head(behaviors)) + SumRewards(Tail(behaviors))

RECURSIVE SumPenalties(_)
SumPenalties(missteps) ==
    IF Len(missteps) = 0 THEN 0
    ELSE Head(missteps).penalty + SumPenalties(Tail(missteps))

\* Variant: +1 for every stage gained instead of a flat +1.
calculate_trust_change_per_stage(current_stage, new_stage, detected_behaviors, missteps) ==
    (IF new_stage > current_stage THEN new_stage - current_stage ELSE 0)
    + SumRewards(detected_behaviors)
    + SumPenalties(missteps)

\* Variant: the advancement point is also given for keeping the stage.
calculate_trust_change_for_staying(current_stage, new_stage, detected_behaviors, missteps) ==
    (IF new_stage >= current_stage THEN 1 ELSE 0)
    + SumRewards(detected_behaviors)
    + SumPenalties(missteps)

calculate_trust_change(current_stage, new_stage, detected_behaviors, missteps) ==
    (IF new_stage > current_stage THEN 1 ELSE 0)
    + SumRewards(detected_behaviors)
    + SumPenalties(missteps)

(***************************************************************************)
(* Outcome classifier.                                                     *)
(***************************************************************************)
\* Variant: the stage-5 rules are tried before the loss rule.
determine_sale_outcome_stage_first(trust_score, current_stage, missteps) ==
    IF current_stage >= 5 /\ trust_score >= TRUST_WIN_THRESHOLD THEN "won"
    ELSE IF current_stage >= 5 /\ trust_score < TRUST_WIN_THRESHOLD THEN "stalled"
    ELSE IF trust_score <= TRUST_LOSS_THRESHOLD THEN "lost"
    ELSE "in_progress"

\* Variant: three recorded missteps lose the sale whatever the trust score.
determine_sale_outcome_counts_missteps(trust_score, current_stage, missteps) ==
    IF trust_score <= TRUST_LOSS_THRESHOLD \/ Len(missteps) >= 3 THEN "lost"
    ELSE IF current_stage >= 5 /\ trust_score >= TRUST_WIN_THRESHOLD THEN "won"
    ELSE IF current_stage >= 5 /\ trust_score < TRUST_WIN_THRESHOLD THEN "stalled"
    ELSE "in_progress"

\* Variant: at stage 5 every session that is not lost is won.
determine_sale_outcome_no_stall(trust_score, current_stage, missteps) ==
    IF trust_score <= TRUST_LOSS_THRESHOLD THEN "lost"
    ELSE IF current_stage >= 5 THEN "won"
    ELSE "in_progress"

determine_sale_outcome(trust_score, current_stage, missteps) ==
    IF trust_score <= TRUST_LOSS_THRESHOLD THEN "lost"
    ELSE IF current_stage >= 5 /\ trust_score >= TRUST_WIN_THRESHOLD THEN "won"
    ELSE IF current_stage >= 5 /\ trust_score < TRUST_WIN_THRESHOLD THEN "stalled"
    ELSE "in_progress"

(***************************************************************************)
(* Scorecard generator.  Scores on the 0-3 scale are kept in hundredths    *)
(* (0.75 is 75, 1.5 is 150, 3 is 300); the overall percentage is a plain   *)
(* integer.                                                                *)
(***************************************************************************)
\* round(x) for the rational x = num / den (den > 0, num >= 0): the nearest
\* integer, a tie going to the even neighbour as Python's round does.
RoundDiv(num, den) ==
    LET q == num \div den
        r == num % den
    IN  IF 2 * r < den THEN q
        ELSE IF 2 * r > den THEN q + 1
        ELSE IF q % 2 = 0 THEN q ELSE q + 1

\* str.replace("_", " ")
RECURSIVE replace_underscore(_)
replace_underscore(s) ==
    IF s = "" THEN ""
    ELSE (IF CharAt(s, 1) = "_" THEN " " ELSE CharAt(s, 1))
         \o replace_underscore(SubSeq(s, 2, Len(s)))

\* ', '.join(names)
RECURSIVE join(_)
join(names) ==
    IF Len(names) = 0 THEN ""
    ELSE IF Len(names) = 1 THEN names[1]
    ELSE names[1] \o ", " \o join(Tail(names))

\* len([m for m in conversation_history if m["role"] == "user"])
RECURSIVE CountUser(_)
CountUser(conversation_history) ==
    IF Len(conversation_history) = 0 THEN 0
    ELSE (IF Head(conversation_history).role = "user" THEN 1 ELSE 0)
         + CountUser(Tail(conversation_history))

\* What a call yields when PULSE_STAGES[pulse_stage] has no such key.
KeyError == [raised |-> "KeyError"]

Raised(result) == "raised" \in DOMAIN result

\* Variant: the stage itself, not the stages completed, is scored.
bce_score_from_stage(pulse_stage) == pulse_stage * 75

\* BCE: behavioral mastery.
bce_score(pulse_stage) == (pulse_stage - 1) * 75

bce_passed(pulse_stage) == pulse_stage >= 4

\* MCF: methodology fidelity.
\* Variant: no trust score earns more than the base of 1.
mcf_base_flat(trust_score) == IF trust_score <= 3 THEN 0 ELSE 1

mcf_base(trust_score) ==
    IF trust_score <= 3 THEN 0
    ELSE IF trust_score <= 5 THEN 1
    ELSE IF trust_score <= 7 THEN 2
    ELSE 3

\* Variant: the penalty is not capped at 1.5.
misstep_penalty_uncapped(missteps) == Len(missteps) * 50

misstep_penalty(missteps) == Min(Len(missteps) * 50, 150)

mcf_score(trust_score, missteps) ==
    Max(0, mcf_base(trust_score) * 100 - misstep_penalty(missteps))

mcf_passed(trust_score, missteps) == mcf_score(trust_score, missteps) >= 200

\* Variant: an outcome that is not one of the four known ones scores nothing.
cpo_score_unknown_zero(sale_outcome) ==
    IF sale_outcome = "won" THEN 300
    ELSE IF sale_outcome = "stalled" THEN 150
    ELSE IF sale_outcome = "in_progress" THEN 100
    ELSE 0

\* Variant: stalled is scored like an unfinished session.
cpo_score_no_stalled(sale_outcome) ==
    IF sale_outcome = "won" THEN 300
    ELSE IF sale_outcome = "lost" THEN 0
    ELSE 100

\* CPO: conversion outcome.
\* Variant: a lost sale falls through to the default of 1.0.
cpo_score_lost_default(sale_outcome) ==
    IF sale_outcome = "won" THEN 300
    ELSE IF sale_outcome = "stalled" THEN 150
    ELSE 100

cpo_score(sale_outcome) ==
    IF sale_outcome = "won" THEN 300
    ELSE IF sale_outcome = "stalled" THEN 150
    ELSE IF sale_outcome = "lost" THEN 0
    ELSE 100

cpo_passed(sale_outcome) == sale_outcome = "won"

\* Variant: the percentage is truncated, int(...), instead of rounded.
overall_pct_truncated(bce, mcf, cpo) == (bce + mcf + cpo) \div 9

\* Variant: the average is scaled as if it were on a 0-1 scale,
\* round(overall_raw * 100).
overall_pct_unscaled(bce, mcf, cpo) == RoundDiv(bce + mcf + cpo, 3)

\* overall_raw = (bce + mcf + cpo) / 3 and overall_pct = round(overall_raw / 3 * 100):
\* with the three scores in hundredths, round(total / 9).
overall_pct(bce, mcf, cpo) == RoundDiv(bce + mcf + cpo, 9)

\* round(overall_raw, 2), in hundredths.
overall_raw_score(bce, mcf, cpo) == RoundDiv(bce + mcf + cpo, 3)

generate_scorecard(session_id, pulse_stage, trust_score, sale_outcome, missteps, conversation_history) ==
    IF pulse_stage \notin DOMAIN PULSE_STAGES THEN KeyError
    ELSE
    LET bce_summary ==
            "Reached PULSE stage " \o ToString(pulse_stage) \o " ("
            \o PULSE_STAGES[pulse_stage].name \o ")"
            \o (IF pulse_stage < 3
                THEN ". Need to progress further through discovery and understanding."
                ELSE IF pulse_stage < 5
                THEN ". Good progress, but didn't complete the full PULSE cycle."
                ELSE ". Excellent! Completed all PULSE stages.")
        misstep_names == [k \in 1..Len(missteps) |-> replace_underscore(missteps[k].id)]
        mcf_summary ==
            IF Len(missteps) > 0
            THEN "Trust score: " \o ToString(trust_score) \o "/10. Missteps: "
                 \o join(misstep_names) \o "."
            ELSE "Trust score: " \o ToString(trust_score) \o "/10. No missteps detected."
        cpo_summary ==
            IF sale_outcome = "won" THEN "Successfully closed the sale!"
            ELSE IF sale_outcome = "stalled"
            THEN "Customer hesitated. Sale not completed but not lost."
            ELSE IF sale_outcome = "lost"
            THEN "Customer walked away. Review approach and try again."
            ELSE "Session ended before reaching a conclusion."
        bce == bce_score(pulse_stage)
        mcf == mcf_score(trust_score, missteps)
        cpo == cpo_score(sale_outcome)
        pct == overall_pct(bce, mcf, cpo)
    IN  [ overall |-> [ score |-> pct,
                        raw_score |-> overall_raw_score(bce, mcf, cpo),
                        passed |-> pct >= 70 ],
          bce |-> [ score |-> bce, passed |-> bce_passed(pulse_stage),
                    summary |-> bce_summary ],
          mcf |-> [ score |-> mcf, passed |-> mcf_passed(trust_score, missteps),
                    summary |-> mcf_summary ],
          cpo |-> [ score |-> cpo, passed |-> cpo_passed(sale_outcome),
                    summary |-> cpo_summary ],
          pulse_details |->
              [ final_stage |-> pulse_stage,
                stage_name |-> PULSE_STAGES[pulse_stage].name,
                trust_score |-> trust_score,
                sale_outcome |-> sale_outcome,
                missteps |-> misstep_names,
                total_exchanges |-> CountUser(conversation_history) ] ]

(***************************************************************************)
(* State.  The blobs of a session are kept per session id; a blob is a     *)
(* sequence of length 0 (no such blob) or 1 (its JSON content).            *)
(***************************************************************************)
VARIABLES
    conversation,      \* sessions/<id>/conversation.json: the "messages" list
    pulse_state,       \* sessions/<id>/pulse_state.json
    sale_state,        \* sessions/<id>/sale_state.json
    scorecard,         \* sessions/<id>/scorecard.json
    transcript,        \* sessions/<id>/transcript.json
    response,          \* the HTTP response of the latest request
    scorecard_calls,   \* history: how often main has called _generate_scorecard
    call,              \* the latest direct call of an engine function
    requests,          \* chat requests in flight: where each is in main, and its locals
    turn_count,        \* history: how many chat turns of a session have run to the end
    session_doc,       \* sessions/<id>/session.json
    last_request,      \* history: the latest endpoint request, with its blob reads and writes
    environ            \* the environment variables the endpoints read

vars == <<conversation, pulse_state, sale_state, scorecard, transcript,
          response, scorecard_calls, call, requests, turn_count, session_doc, last_request,
          environ>>

\* What the session endpoints keep besides the blobs of the chat handler.
endpoint_store == <<session_doc, last_request, environ>>

store == <<conversation, pulse_state, sale_state, scorecard, transcript,
           scorecard_calls, turn_count, endpoint_store>>

NoResponse == [status_code |-> 0]
NoCall == [fn |-> "none"]
Idle == [pc |-> "idle"]
NoRequest == [endpoint |-> "none", reads |-> <<>>, writes |-> <<>>]

\* What os.getenv gives for each variable when none of them is set.
Unset ==
    [ TRAINING_ORCHESTRATOR_ENABLED |-> "false",
      PULSE_TRAINER_ENABLED |-> "false",
      AUDIO_PROCESSING_ENABLED |-> "true" ]

\* No blob is stored and no request has been made.
EmptyStore ==
    /\ conversation = [sid \in AllSessions |-> <<>>]
    /\ pulse_state = [sid \in AllSessions |-> <<>>]
    /\ sale_state = [sid \in AllSessions |-> <<>>]
    /\ scorecard = [sid \in AllSessions |-> <<>>]
    /\ transcript = [sid \in AllSessions |-> <<>>]
    /\ response = NoResponse
    /\ scorecard_calls = [sid \in AllSessions |-> 0]
    /\ call = NoCall
    /\ requests = [r \in Requests |-> Idle]
    /\ turn_count = [sid \in AllSessions |-> 0]
    /\ session_doc = [sid \in AllSessions |-> <<>>]
    /\ last_request = NoRequest

Init == EmptyStore /\ environ = Unset

(***************************************************************************)
(* Storage accessors of the chat handler.                                  *)
(***************************************************************************)
\* Variant: a session without a stored stage starts before Probe.
get_pulse_stage_from_session_zero(session_id) ==
    IF Len(pulse_state[session_id]) = 0 THEN 0
    ELSE pulse_state[session_id][1].current_stage

get_pulse_stage_from_session(session_id) ==
    IF Len(pulse_state[session_id]) = 0 THEN 1
    ELSE pulse_state[session_id][1].current_stage

\* Variant: the sale state is read from one path for every session.
get_sale_state_from_session_shared(session_id) ==
    IF Len(sale_state["s1"]) = 0
    THEN [ trust_score |-> INITIAL_TRUST,
           outcome |-> "in_progress",
           missteps |-> <<>>,
           total_missteps |-> 0 ]
    ELSE sale_state["s1"][1]

get_sale_state_from_session(session_id) ==
    IF Len(sale_state[session_id]) = 0
    THEN [ trust_score |-> INITIAL_TRUST,
           outcome |-> "in_progress",
           missteps |-> <<>>,
           total_missteps |-> 0 ]
    ELSE sale_state[session_id][1]

get_conversation_history(session_id) == conversation[session_id]

\* The transcript lines built by _save_transcript.
TranscriptLines(conversation_history) ==
    [k \in 1..Len(conversation_history) |->
        (IF conversation_history[k].role = "user" THEN "Trainee" ELSE "Customer")
        \o ": " \o conversation_history[k].content]

\* [m["content"] for m in conversation_history if m["role"] == "user"]
RECURSIVE UserContents(_)
UserContents(conversation_history) ==
    IF Len(conversation_history) = 0 THEN <<>>
    ELSE (IF Head(conversation_history).role = "user"
          THEN <<Head(conversation_history).content>> ELSE <<>>)
         \o UserContents(Tail(conversation_history))

\* history[-MAX_HISTORY_MESSAGES:] when the history is longer than that.
TrimHistory(history) ==
    IF Len(history) > MAX_HISTORY_MESSAGES
    THEN SubSeq(history, Len(history) - MAX_HISTORY_MESSAGES + 1, Len(history))
    ELSE history

determine_emotion(persona_type, ai_response) ==
    LET response_lower == lower(ai_response)
        any(words) == \E w \in words : Contains(response_lower, w)
    IN  IF any({"excited", "great", "love", "amazing", "fantastic"}) THEN "excited"
        ELSE IF any({"sorry", "unfortunately", "apologize"}) THEN "empathetic"
        ELSE IF any({"interesting", "hmm", "curious"}) THEN "curious"
        ELSE IF any({"?", "what", "how", "why"}) THEN "curious"
        ELSE CASE persona_type = "Director" -> "confident"
               [] persona_type = "Relater" -> "friendly"
               [] persona_type = "Socializer" -> "excited"
               [] persona_type = "Thinker" -> "thoughtful"
               [] OTHER -> "neutral"

(***************************************************************************)
(* The chat handler, main.  One action per way a request ends.             *)
(***************************************************************************)
\* The CORS preflight.
ChatOptions ==
    /\ response' = [status_code |-> 200, method |-> "OPTIONS"]
    /\ UNCHANGED <<store, call, requests>>

\* Invalid JSON, missing sessionId or empty message: 400 before any work.
ChatRejected(body) ==
    /\ \/ ~body.json_ok
       \/ body.sessionId = ""
       \/ strip(body.message) = ""
    /\ response' =
         [ status_code |-> 400,
           error |-> IF ~body.json_ok THEN "Invalid JSON body"
                     ELSE IF body.sessionId = "" THEN "Missing sessionId"
                     ELSE "Missing message" ]
    /\ UNCHANGED <<store, call, requests>>

\* Variant: the history is saved with the trainee's message before the
\* response is generated.
ChatGeneratorRaises_after_save(session_id, raw_message) ==
    /\ strip(raw_message) # ""
    /\ conversation' =
         [conversation EXCEPT ![session_id] =
            TrimHistory(get_conversation_history(session_id))
            \o <<[role |-> "user", content |-> strip(raw_message)]>>]
    /\ response' = [status_code |-> 500, error |-> "Failed to process message"]
    /\ UNCHANGED <<pulse_state, sale_state, scorecard, transcript, scorecard_calls,
                   turn_count, endpoint_store, call, requests>>

\* generate_conversation_response raises: the handler's except clause
\* answers 500; nothing has been saved yet.
ChatGeneratorRaises(session_id, raw_message) ==
    /\ strip(raw_message) # ""
    /\ response' = [status_code |-> 500, error |-> "Failed to process message"]
    /\ UNCHANGED <<store, call, requests>>

\* Variant: only the upper end is clamped.
clamp_trust_no_floor(trust_score, trust_change) == Min(10, trust_score + trust_change)

\* max(0, min(10, trust_score + trust_change))
clamp_trust(trust_score, trust_change) == Max(0, Min(10, trust_score + trust_change))

\* Variant: every outcome other than in_progress ends the session.
scorecard_due_not_in_progress(sale_outcome) == sale_outcome # "in_progress"

\* `if sale_outcome in ("won", "lost")`: the turn generates the scorecard.
scorecard_due(sale_outcome) == sale_outcome \in {"won", "lost"}

\* Variant: the outcome is classified before the stage is advanced.
stage_after_turn_stale(current_stage, new_stage) == current_stage

\* `if new_stage > current_stage: ... current_stage = new_stage`: the stage
\* the rest of the turn works with.
stage_after_turn(current_stage, new_stage) ==
    IF new_stage > current_stage THEN new_stage ELSE current_stage

\* Variant: a misstep id already in the history is not recorded again.
extend_missteps_dedup(all_missteps, current_missteps) ==
    all_missteps \o
    SelectSeq(current_missteps,
              LAMBDA r : \A i \in 1..Len(all_missteps) : all_missteps[i].id # r.id)

\* all_missteps = sale_state.get("missteps", []); all_missteps.extend(current_missteps)
extend_missteps(all_missteps, current_missteps) == all_missteps \o current_missteps

\* The values main computes on a turn that runs to the end, as a record of
\* its local variables, from what it read: the stored conversation history,
\* the stored stage and the stored sale state.
TurnCompute(raw_message, persona_type, ai_response, history, current_stage, old_sale_state) ==
    LET message == strip(raw_message)
        user_turn == [role |-> "user", content |-> message]
        ai_turn == [role |-> "assistant", content |-> ai_response]
        conversation_history == TrimHistory(history) \o <<user_turn, ai_turn>>
        emotion == determine_emotion(persona_type, ai_response)
        trainee_messages == UserContents(conversation_history)
        analysis == analyze_pulse_stage_quick(trainee_messages, current_stage)
        new_stage == analysis.stage
        detected_behaviors == analysis.behaviors
        current_missteps == detect_missteps(message, current_stage)
        all_missteps == extend_missteps(old_sale_state.missteps, current_missteps)
        trust_change ==
            calculate_trust_change(current_stage, new_stage, detected_behaviors,
                                   current_missteps)
        trust_score == clamp_trust(old_sale_state.trust_score, trust_change)
        advanced == new_stage > current_stage
        stage_after == stage_after_turn(current_stage, new_stage)
        sale_outcome == determine_sale_outcome(trust_score, stage_after, all_missteps)
    IN  [ message |-> message,
          conversation_history |-> conversation_history,
          emotion |-> emotion,
          old_stage |-> current_stage,
          new_stage |-> new_stage,
          detected_behaviors |-> detected_behaviors,
          current_missteps |-> current_missteps,
          all_missteps |-> all_missteps,
          trust_change |-> trust_change,
          trust_score |-> trust_score,
          advanced |-> advanced,
          current_stage |-> stage_after,
          sale_outcome |-> sale_outcome,
          concluded |-> scorecard_due(sale_outcome) ]

\* The locals of a turn that reads the store as it is now.
TurnLocals(session_id, raw_message, persona_type, ai_response) ==
    TurnCompute(raw_message, persona_type, ai_response,
                get_conversation_history(session_id),
                get_pulse_stage_from_session(session_id),
                get_sale_state_from_session(session_id))

\* The content main writes to pulse_state.json when the stage advances.
PulseStateBlob(t) ==
    [ current_stage |-> t.new_stage,
      stage_name |-> PULSE_STAGES[t.new_stage].name,
      detected_behaviors |-> t.detected_behaviors ]

\* The content main writes to sale_state.json.
SaleStateBlob(t) ==
    [ trust_score |-> t.trust_score,
      outcome |-> t.sale_outcome,
      missteps |-> t.all_missteps,
      total_missteps |-> Len(t.all_missteps) ]

\* The 200 response of a turn.
OkResponse(session_id, ai_response, t) ==
    [ status_code |-> 200,
      sessionId |-> session_id,
      aiResponse |-> ai_response,
      avatarEmotion |-> t.emotion,
      pulseStage |-> t.current_stage,
      pulseStageName |-> PULSE_STAGES[t.current_stage].name,
      detectedBehaviors |-> t.detected_behaviors,
      saleOutcome |->
          [ status |-> t.sale_outcome,
            trustScore |-> t.trust_score,
            misstepsThisTurn |->
                [k \in 1..Len(t.current_missteps) |-> t.current_missteps[k].id],
            totalMissteps |-> Len(t.all_missteps) ] ]

\* What a turn with the locals t writes and answers.
TurnEffects(session_id, ai_response, t) ==
    /\ \E card \in {IF t.concluded
                    THEN generate_scorecard(session_id, t.current_stage, t.trust_score,
                                            t.sale_outcome, t.all_missteps,
                                            t.conversation_history)
                    ELSE KeyError} :
        /\ conversation' = [conversation EXCEPT ![session_id] = t.conversation_history]
        /\ pulse_state' =
             IF t.advanced /\ t.new_stage \in DOMAIN PULSE_STAGES
             THEN [pulse_state EXCEPT ![session_id] = <<PulseStateBlob(t)>>]
             ELSE pulse_state
        /\ sale_state' = [sale_state EXCEPT ![session_id] = <<SaleStateBlob(t)>>]
        /\ scorecard_calls' =
             IF t.concluded
             THEN [scorecard_calls EXCEPT ![session_id] = @ + 1]
             ELSE scorecard_calls
        /\ IF t.concluded /\ ~Raised(card)
           THEN /\ scorecard' = [scorecard EXCEPT ![session_id] = <<card>>]
                /\ transcript' =
                     [transcript EXCEPT ![session_id] =
                        <<[transcript |-> TranscriptLines(t.conversation_history)]>>]
           ELSE UNCHANGED <<scorecard, transcript>>
        /\ response' =
             IF (t.concluded /\ Raised(card)) \/ t.current_stage \notin DOMAIN PULSE_STAGES
             THEN [status_code |-> 500, error |-> "Failed to process message"]
             ELSE OkResponse(session_id, ai_response, t)
        /\ turn_count' = [turn_count EXCEPT ![session_id] = @ + 1]
        /\ UNCHANGED <<call, requests, endpoint_store>>

\* A turn that runs to the end: everything main does from loading the
\* conversation history to the 200 response.
Turn(session_id, raw_message, persona_type, ai_response) ==
    /\ strip(raw_message) # ""
    /\ \E t \in {TurnLocals(session_id, raw_message, persona_type, ai_response)} :
          TurnEffects(session_id, ai_response, t)

\* A turn of a session of at most MaxTurns turns.
ChatTurn(session_id, raw_message, persona_type, ai_response) ==
    /\ turn_count[session_id] < MaxTurns
    /\ Turn(session_id, raw_message, persona_type, ai_response)

Next ==
    \/ ChatOptions
    \/ \E body \in BadRequests : ChatRejected(body)
    \/ \E session_id \in Sessions, raw_message \in FailedTurnMessages :
          ChatGeneratorRaises(session_id, raw_message)
    \/ \E session_id \in Sessions, raw_message \in TurnMessages,
          persona_type \in Personas, ai_response \in AIResponses :
          ChatTurn(session_id, raw_message, persona_type, ai_response)

Spec == Init /\ [][Next]_vars

(***************************************************************************)
(* Chat requests in flight at the same time.  The host runs main for each  *)
(* request on its own; main takes no lock or lease and write_json uploads   *)
(* with overwrite, so the requests interleave at every blob read and write. *)
(* One action per blob access of main, in program order; what main         *)
(* computes between two accesses belongs to the later one.                 *)
(***************************************************************************)
\* A request arrives with a valid body.
ConcReceive(r, session_id, raw_message, persona_type) ==
    /\ requests[r].pc = "idle"
    /\ strip(raw_message) # ""
    /\ requests' = [requests EXCEPT ![r] =
                      [ pc |-> "load_history", session_id |-> session_id,
                        message |-> raw_message, persona_type |-> persona_type ]]
    /\ UNCHANGED <<store, response, call>>

\* conversation_history = _get_conversation_history(session_id)
ConcLoadHistory(r) ==
    /\ requests[r].pc = "load_history"
    /\ requests' = [requests EXCEPT ![r] =
                      [ pc |-> "save_history",
                        history |-> get_conversation_history(requests[r].session_id) ]
                      @@ requests[r]]
    /\ UNCHANGED <<store, response, call>>

\* The reply is generated, the trimmed history gets the message and the
\* reply, and _save_conversation_history writes it.
ConcSaveHistory(r, ai_response) ==
    /\ requests[r].pc = "save_history"
    /\ conversation' =
         [conversation EXCEPT ![requests[r].session_id] =
            TrimHistory(requests[r].history)
            \o << [role |-> "user", content |-> strip(requests[r].message)],
                  [role |-> "assistant", content |-> ai_response] >>]
    /\ requests' = [requests EXCEPT ![r] =
                      [pc |-> "load_stage", ai_response |-> ai_response] @@ requests[r]]
    /\ UNCHANGED <<pulse_state, sale_state, scorecard, transcript, scorecard_calls,
                   turn_count, endpoint_store,
                   response, call>>

\* current_stage = _get_pulse_stage_from_session(session_id)
ConcLoadStage(r) ==
    /\ requests[r].pc = "load_stage"
    /\ requests' = [requests EXCEPT ![r] =
                      [ pc |-> "load_sale_state",
                        current_stage |->
                            get_pulse_stage_from_session(requests[r].session_id) ]
                      @@ requests[r]]
    /\ UNCHANGED <<store, response, call>>

\* sale_state = _get_sale_state_from_session(session_id), then the analysis
\* of the turn up to the test `new_stage > current_stage`.
ConcLoadSaleState(r) ==
    /\ requests[r].pc = "load_sale_state"
    /\ \E t \in {TurnCompute(requests[r].message, requests[r].persona_type,
                             requests[r].ai_response, requests[r].history,
                             requests[r].current_stage,
                             get_sale_state_from_session(requests[r].session_id))} :
          requests' = [requests EXCEPT ![r] =
                         [ pc |-> IF t.advanced THEN "save_stage" ELSE "save_sale_state",
                           t |-> t ] @@ requests[r]]
    /\ UNCHANGED <<store, response, call>>

\* _save_pulse_stage_to_session(session_id, new_stage, detected_behaviors)
ConcSaveStage(r) ==
    /\ requests[r].pc = "save_stage"
    /\ pulse_state' = [pulse_state EXCEPT ![requests[r].session_id] =
                         <<PulseStateBlob(requests[r].t)>>]
    /\ requests' = [requests EXCEPT ![r].pc = "save_sale_state"]
    /\ UNCHANGED <<conversation, sale_state, scorecard, transcript, scorecard_calls,
                   turn_count, endpoint_store,
                   response, call>>

\* _save_sale_state_to_session(session_id, sale_state)
ConcSaveSaleState(r) ==
    /\ requests[r].pc = "save_sale_state"
    /\ sale_state' = [sale_state EXCEPT ![requests[r].session_id] =
                        <<SaleStateBlob(requests[r].t)>>]
    /\ requests' = [requests EXCEPT ![r].pc =
                      IF requests[r].t.concluded THEN "save_scorecard" ELSE "respond"]
    /\ UNCHANGED <<conversation, pulse_state, scorecard, transcript, scorecard_calls,
                   turn_count, endpoint_store,
                   response, call>>

\* _generate_scorecard and _save_scorecard of a concluded turn.
ConcSaveScorecard(r) ==
    /\ requests[r].pc = "save_scorecard"
    /\ \E card \in {generate_scorecard(requests[r].session_id, requests[r].t.current_stage,
                                       requests[r].t.trust_score,
                                       requests[r].t.sale_outcome,
                                       requests[r].t.all_missteps,
                                       requests[r].t.conversation_history)} :
          /\ scorecard' =
               IF Raised(card) THEN scorecard
               ELSE [scorecard EXCEPT ![requests[r].session_id] = <<card>>]
          /\ requests' = [requests EXCEPT ![r].pc =
                            IF Raised(card) THEN "failed" ELSE "save_transcript"]
    /\ scorecard_calls' = [scorecard_calls EXCEPT ![requests[r].session_id] = @ + 1]
    /\ UNCHANGED <<conversation, pulse_state, sale_state, transcript, turn_count, endpoint_store,
                   response, call>>

\* _save_transcript(session_id, conversation_history)
ConcSaveTranscript(r) ==
    /\ requests[r].pc = "save_transcript"
    /\ transcript' =
         [transcript EXCEPT ![requests[r].session_id] =
            <<[transcript |-> TranscriptLines(requests[r].t.conversation_history)]>>]
    /\ requests' = [requests EXCEPT ![r].pc = "respond"]
    /\ UNCHANGED <<conversation, pulse_state, sale_state, scorecard, scorecard_calls,
                   turn_count, endpoint_store,
                   response, call>>

\* return _ok({...})
ConcRespond(r) ==
    /\ requests[r].pc = "respond"
    /\ response' = OkResponse(requests[r].session_id, requests[r].ai_response,
                              requests[r].t)
    /\ requests' = [requests EXCEPT ![r].pc = "done"]
    /\ turn_count' = [turn_count EXCEPT ![requests[r].session_id] = @ + 1]
    /\ UNCHANGED <<conversation, pulse_state, sale_state, scorecard, transcript,
                   scorecard_calls, endpoint_store, call>>

ConcNext ==
    \/ \E r \in Requests, session_id \in Sessions, raw_message \in ConcurrentMessages,
          persona_type \in Personas :
          ConcReceive(r, session_id, raw_message, persona_type)
    \/ \E r \in Requests : ConcLoadHistory(r)
    \/ \E r \in Requests, ai_response \in AIResponses : ConcSaveHistory(r, ai_response)
    \/ \E r \in Requests : ConcLoadStage(r)
    \/ \E r \in Requests : ConcLoadSaleState(r)
    \/ \E r \in Requests : ConcSaveStage(r)
    \/ \E r \in Requests : ConcSaveSaleState(r)
    \/ \E r \in Requests : ConcSaveScorecard(r)
    \/ \E r \in Requests : ConcSaveTranscript(r)
    \/ \E r \in Requests : ConcRespond(r)

(***************************************************************************)
(* A long session: turn after turn of one session, up to MaxLongTurns.     *)
(***************************************************************************)
LongTurn(session_id, raw_message, persona_type, ai_response) ==
    /\ turn_count[session_id] < MaxLongTurns
    /\ Turn(session_id, raw_message, persona_type, ai_response)

LongNext ==
    \E session_id \in Sessions, raw_message \in LongMessages,
       persona_type \in Personas, ai_response \in AIResponses :
        LongTurn(session_id, raw_message, persona_type, ai_response)

SpecLong == Init /\ [][LongNext]_vars

(***************************************************************************)
(* A session that reaches stage 5 and goes on: up to MaxDeepTurns turns.   *)
(***************************************************************************)
DeepTurn(session_id, raw_message, persona_type, ai_response) ==
    /\ turn_count[session_id] < MaxDeepTurns
    /\ Turn(session_id, raw_message, persona_type, ai_response)

DeepNext ==
    \E session_id \in Sessions, raw_message \in DeepMessages,
       persona_type \in Personas, ai_response \in AIResponses :
        DeepTurn(session_id, raw_message, persona_type, ai_response)

SpecDeep == Init /\ [][DeepNext]_vars

(***************************************************************************)
(* Turns whose read of pulse_state.json fails: read_json raises or returns *)
(* nothing, and _get_pulse_stage_from_session answers 1.  The rest of the  *)
(* turn runs as usual on what the other reads return.                      *)
(***************************************************************************)
\* The locals of a turn whose stage read failed.
StageReadFailedLocals(session_id, raw_message, persona_type, ai_response) ==
    TurnCompute(raw_message, persona_type, ai_response,
                get_conversation_history(session_id),
                1,
                get_sale_state_from_session(session_id))

FaultTurn(session_id, raw_message, persona_type, ai_response) ==
    /\ turn_count[session_id] < MaxFaultTurns
    /\ Turn(session_id, raw_message, persona_type, ai_response)

StageReadFailedTurn(session_id, raw_message, persona_type, ai_response) ==
    /\ turn_count[session_id] < MaxFaultTurns
    /\ strip(raw_message) # ""
    /\ \E t \in {StageReadFailedLocals(session_id, raw_message, persona_type,
                                       ai_response)} :
          TurnEffects(session_id, ai_response, t)

FaultNext ==
    \/ \E session_id \in Sessions, raw_message \in DeepMessages,
          persona_type \in Personas, ai_response \in AIResponses :
          FaultTurn(session_id, raw_message, persona_type, ai_response)
    \/ \E session_id \in Sessions, raw_message \in DeepMessages,
          persona_type \in Personas, ai_response \in AIResponses :
          StageReadFailedTurn(session_id, raw_message, persona_type, ai_response)

SpecFaulty == Init /\ [][FaultNext]_vars

SpecConc == Init /\ [][ConcNext]_vars

(***************************************************************************)
(* Two sessions served at the same time: each request slot serves the     *)
(* turns of one session, one after the other, and the blob accesses of the *)
(* two slots interleave.                                                   *)
(***************************************************************************)
SessionOfRequest == [r \in Requests |-> IF r = "r1" THEN "s1" ELSE "s2"]

\* The next request of a session arrives once the previous one is answered.
IsoReceive(r, raw_message, persona_type) ==
    /\ requests[r].pc \in {"idle", "done"}
    /\ turn_count[SessionOfRequest[r]] < MaxIsoTurns
    /\ strip(raw_message) # ""
    /\ requests' = [requests EXCEPT ![r] =
                      [ pc |-> "load_history", session_id |-> SessionOfRequest[r],
                        message |-> raw_message, persona_type |-> persona_type ]]
    /\ UNCHANGED <<store, response, call>>

IsoNext ==
    \/ \E r \in Requests, raw_message \in ConcurrentMessages, persona_type \in Personas :
          IsoReceive(r, raw_message, persona_type)
    \/ \E r \in Requests : ConcLoadHistory(r)
    \/ \E r \in Requests, ai_response \in AIResponses : ConcSaveHistory(r, ai_response)
    \/ \E r \in Requests : ConcLoadStage(r)
    \/ \E r \in Requests : ConcLoadSaleState(r)
    \/ \E r \in Requests : ConcSaveStage(r)
    \/ \E r \in Requests : ConcSaveSaleState(r)
    \/ \E r \in Requests : ConcSaveScorecard(r)
    \/ \E r \in Requests : ConcSaveTranscript(r)
    \/ \E r \in Requests : ConcRespond(r)

SpecIso == Init /\ [][IsoNext]_vars

(***************************************************************************)
(* The engine functions called on their own: the initial state draws the   *)
(* function and its arguments, the actions apply the function.             *)
(***************************************************************************)
StageInputs == 0..6
TrustInputs == -1..11
OutcomeInputs == {"in_progress", "won", "lost", "stalled", "abandoned"}

\* The record detect_missteps builds for the k-th entry of CRITICAL_MISSTEPS.
MisstepRecord(k) ==
    [ id |-> CRITICAL_MISSTEPS[k].id,
      penalty |-> CRITICAL_MISSTEPS[k].trust_penalty,
      hint |-> CRITICAL_MISSTEPS[k].response_hint ]

\* Misstep histories: n records, cycling through the three ids from a start.
MisstepLists ==
    { [k \in 1..n |-> MisstepRecord(((start + k) % 3) + 1)] :
        n \in 0..MaxMissteps, start \in 0..2 }

BehaviorLists ==
    { <<>>, <<"builds rapport">>,
      <<"asks discovery questions", "demonstrates active listening">> }
    \cup { <<b>> : b \in BehaviorLabels }

MessageLists ==
    UNION { [1..n -> Messages] : n \in 0..MaxMessages }

HistoryInputs ==
    { <<>>,
      << [role |-> "user", content |-> "Hello there"],
         [role |-> "assistant", content |-> "I am not sure yet."] >> }

EngineCalls ==
    { [fn |-> "analyze_pulse_stage_quick", done |-> FALSE, repeat |-> 0,
       trainee_messages |-> ms, current_stage |-> st] :
        ms \in MessageLists, st \in StageInputs }
    \cup
    { [fn |-> "detect_missteps", done |-> FALSE, message |-> m, current_stage |-> st] :
        m \in Messages, st \in StageInputs }
    \cup
    { [fn |-> "calculate_trust_change", done |-> FALSE, current_stage |-> st,
       new_stage |-> nst, detected_behaviors |-> bs, missteps |-> mh] :
        st \in StageInputs, nst \in StageInputs, bs \in BehaviorLists, mh \in MisstepLists }
    \cup
    { [fn |-> "determine_sale_outcome", done |-> FALSE, trust_score |-> tr,
       current_stage |-> st, missteps |-> mh] :
        tr \in TrustInputs, st \in StageInputs, mh \in MisstepLists }
    \cup
    { [fn |-> "generate_scorecard", done |-> FALSE, pulse_stage |-> st,
       trust_score |-> tr, sale_outcome |-> oc, missteps |-> mh,
       conversation_history |-> h] :
        st \in StageInputs, tr \in TrustInputs, oc \in OutcomeInputs,
        mh \in MisstepLists, h \in HistoryInputs }

EngineInit ==
    /\ conversation = [sid \in AllSessions |-> <<>>]
    /\ pulse_state = [sid \in AllSessions |-> <<>>]
    /\ sale_state = [sid \in AllSessions |-> <<>>]
    /\ scorecard = [sid \in AllSessions |-> <<>>]
    /\ transcript = [sid \in AllSessions |-> <<>>]
    /\ response = NoResponse
    /\ scorecard_calls = [sid \in AllSessions |-> 0]
    /\ call \in EngineCalls
    /\ requests = [r \in Requests |-> Idle]
    /\ turn_count = [sid \in AllSessions |-> 0]
    /\ session_doc = [sid \in AllSessions |-> <<>>]
    /\ last_request = NoRequest
    /\ environ = Unset

ApplyAnalyze ==
    /\ call.fn = "analyze_pulse_stage_quick" /\ ~call.done
    /\ call' = [call EXCEPT !.done = TRUE] @@
               [result |-> analyze_pulse_stage_quick(call.trainee_messages,
                                                     call.current_stage)]
    /\ UNCHANGED <<store, response, requests>>

\* The stage detector is called again with one more message and the stage
\* it returned; repeat counts these follow-up calls.
AnalyzeNext(m) ==
    /\ call.fn = "analyze_pulse_stage_quick" /\ call.done
    /\ Len(call.trainee_messages) < MaxMessages
    /\ call' = [fn |-> "analyze_pulse_stage_quick", done |-> FALSE,
                repeat |-> call.repeat + 1,
                trainee_messages |-> Append(call.trainee_messages, m),
                current_stage |-> call.result.stage]
    /\ UNCHANGED <<store, response, requests>>

ApplyDetectMissteps ==
    /\ call.fn = "detect_missteps" /\ ~call.done
    /\ call' = [call EXCEPT !.done = TRUE] @@
               [result |-> detect_missteps(call.message, call.current_stage)]
    /\ UNCHANGED <<store, response, requests>>

ApplyTrustChange ==
    /\ call.fn = "calculate_trust_change" /\ ~call.done
    /\ call' = [call EXCEPT !.done = TRUE] @@
               [result |-> calculate_trust_change(call.current_stage, call.new_stage,
                                                  call.detected_behaviors, call.missteps)]
    /\ UNCHANGED <<store, response, requests>>

ApplyOutcome ==
    /\ call.fn = "determine_sale_outcome" /\ ~call.done
    /\ call' = [call EXCEPT !.done = TRUE] @@
               [result |-> determine_sale_outcome(call.trust_score, call.current_stage,
                                                  call.missteps)]
    /\ UNCHANGED <<store, response, requests>>

ApplyScorecard ==
    /\ call.fn = "generate_scorecard" /\ ~call.done
    /\ call' = [call EXCEPT !.done = TRUE] @@
               [result |-> generate_scorecard("s1", call.pulse_stage, call.trust_score,
                                              call.sale_outcome, call.missteps,
                                              call.conversation_history)]
    /\ UNCHANGED <<store, response, requests>>

EngineNext ==
    \/ ApplyAnalyze
    \/ \E m \in Messages : AnalyzeNext(m)
    \/ ApplyDetectMissteps
    \/ ApplyTrustChange
    \/ ApplyOutcome
    \/ ApplyScorecard

SpecEngine == EngineInit /\ [][EngineNext]_vars

(***************************************************************************)
(* State functions used by the properties.                                 *)
(***************************************************************************)
\* The stored scoring state of a session, as the next turn will load it.
StageOf(sid) == get_pulse_stage_from_session(sid)
TrustOf(sid) == get_sale_state_from_session(sid).trust_score
OutcomeOf(sid) == get_sale_state_from_session(sid).outcome
MisstepsOf(sid) == get_sale_state_from_session(sid).missteps

\* The latest request was a turn of session sid that ran to the end.
TurnDone(sid) ==
    /\ "saleOutcome" \in DOMAIN response
    /\ response.sessionId = sid

\* The last message of a stage detector call.
LatestOf(c) == c.trainee_messages[Len(c.trainee_messages)]

AnalyzeDone == call.fn = "analyze_pulse_stage_quick" /\ call.done
OutcomeDone == call.fn = "determine_sale_outcome" /\ call.done
DetectDone == call.fn = "detect_missteps" /\ call.done
TrustChangeDone == call.fn = "calculate_trust_change" /\ call.done
ScorecardDone ==
    /\ call.fn = "generate_scorecard" /\ call.done
    /\ ~Raised(call.result)

(***************************************************************************)
(* Properties.                                                             *)
(***************************************************************************)
\* The stage the stage detector returns for each stage 1..5 and message.
DetectorStage ==
    [st \in 1..5 |-> [m \in Messages |-> analyze_pulse_stage_quick(<<m>>, st).stage]]

\* C1: over the turns of a session the stored stage stays in 1..5, never
\* decreases and grows by at most 1 per turn; and for every stage s in 1..5
\* and every message the stage detector returns s or s + 1.
C1_StageMonotonic ==
    [][ /\ \A sid \in Sessions :
             /\ StageOf(sid)' \in 1..5
             /\ StageOf(sid)' >= StageOf(sid)
             /\ StageOf(sid)' <= StageOf(sid) + 1
        /\ \A st \in 1..5, m \in Messages :
             DetectorStage[st][m] \in {st, st + 1} ]_vars

\* C1 witness: a session has advanced, one stage per turn, to stage 5.
C1_Witness ==
    /\ TurnDone("s1")
    /\ StageOf("s1") = 5
    /\ Len(conversation["s1"]) = 2 * 4

\* C2: in every state the stored trust score is an integer in 0..10.
C2_TrustBounds ==
    \A sid \in Sessions :
        /\ TrustOf(sid) \in 0..10
        /\ TurnDone(sid) => response.saleOutcome.trustScore \in 0..10

\* C2 witness: a first turn whose penalties (-8) outweigh its gains (+2)
\* leaves the trust score at the floor.
C2_Witness ==
    /\ TurnDone("s1")
    /\ Len(conversation["s1"]) = 2
    /\ StageOf("s1") = 2
    /\ SumPenalties(MisstepsOf("s1")) = -8
    /\ TrustOf("s1") = 0

\* C3: for trust 0..10 and stage 1..5 the outcome classifier returns lost
\* if trust <= 2, else won if stage >= 5 and trust >= 7, else stalled if
\* stage >= 5 and trust < 7, else in_progress.
C3_OutcomeRules ==
    (OutcomeDone /\ call.trust_score \in 0..10 /\ call.current_stage \in 1..5) =>
        /\ call.result = "lost" <=> call.trust_score <= 2
        /\ call.result = "won" <=>
             (call.trust_score > 2 /\ call.current_stage >= 5 /\ call.trust_score >= 7)
        /\ call.result = "stalled" <=>
             (call.trust_score > 2 /\ call.current_stage >= 5 /\ call.trust_score < 7)
        /\ call.result = "in_progress" <=>
             (call.trust_score > 2 /\ call.current_stage < 5)
        /\ (call.trust_score = 2 /\ call.current_stage = 5) => call.result = "lost"
        /\ (call.trust_score = 9 /\ call.current_stage = 5) => call.result = "won"

\* C3 witness: the classifier has been applied to trust 2 at stage 5.
C3_Witness ==
    /\ OutcomeDone
    /\ call.trust_score = 2
    /\ call.current_stage = 5
    /\ call.result = "lost"

\* C4 as claimed: once a scorecard has been generated for a session, no
\* later turn generates one again or changes the stored scorecard.
C4_FinalizedOnce ==
    [][ \A sid \in Sessions :
          scorecard_calls[sid] >= 1 =>
              /\ scorecard_calls'[sid] = scorecard_calls[sid]
              /\ scorecard'[sid] = scorecard[sid] ]_vars

\* C5 as claimed: at stage 1 a latest message without a question mark never
\* advances the stage.
C5_QuestionMarkVeto ==
    (/\ AnalyzeDone
     /\ call.current_stage = 1
     /\ Len(call.trainee_messages) > 0
     /\ ~Contains(lower(LatestOf(call)), "?")) =>
        call.result.stage = 1

\* C6 as claimed: at stage 1 the message "What brings you in today?" makes
\* the stage detector return stage 2 with the behavior "asks discovery
\* questions".
C6_DiscoveryQuestionAdvances ==
    (/\ AnalyzeDone
     /\ call.current_stage = 1
     /\ call.trainee_messages = <<"What brings you in today?">>) =>
        call.result = [stage |-> 2, behaviors |-> <<"asks discovery questions">>]

\* C7: called with current stage 5, the stage detector returns stage 5 and
\* no behaviors, whatever the messages and however often it is called.
C7_StageFiveCeiling ==
    (AnalyzeDone /\ call.current_stage = 5) =>
        call.result = [stage |-> 5, behaviors |-> <<>>]

\* C7 witness: the second follow-up call at stage 5, with a latest message
\* that asks for commitment.
C7_Witness ==
    /\ AnalyzeDone
    /\ call.current_stage = 5
    /\ call.repeat = 2
    /\ LatestOf(call) = "Would you like to get started?"
    /\ call.result.stage = 5

\* C8: a turn generates or stores a scorecard only if the outcome of that
\* turn is won or lost.
C8_ScorecardOnlyWhenConcluded ==
    [][ \A sid \in Sessions :
          (scorecard_calls'[sid] # scorecard_calls[sid] \/ scorecard'[sid] # scorecard[sid])
          => /\ TurnDone(sid)'
             /\ response'.saleOutcome.status \in {"won", "lost"}
             /\ OutcomeOf(sid)' \in {"won", "lost"} ]_vars

\* C8 witness: a turn has ended stalled and the session has no scorecard.
C8_Witness ==
    /\ TurnDone("s1")
    /\ response.saleOutcome.status = "stalled"
    /\ scorecard_calls["s1"] = 0
    /\ Len(scorecard["s1"]) = 0

\* The scenario of C9: final stage 3, trust 3, outcome lost, 2 missteps.
C9_Scenario ==
    /\ ScorecardDone
    /\ call.pulse_stage = 3
    /\ call.trust_score = 3
    /\ call.sale_outcome = "lost"
    /\ Len(call.missteps) = 2

\* C9 as claimed: the scenario gives BCE 1.5, MCF 0, CPO 0, none passed,
\* and an overall percent of 0, not passed.
C9_ScenarioAsClaimed ==
    C9_Scenario =>
        /\ call.result.bce.score = 150 /\ ~call.result.bce.passed
        /\ call.result.mcf.score = 0 /\ ~call.result.mcf.passed
        /\ call.result.cpo.score = 0 /\ ~call.result.cpo.passed
        /\ call.result.overall.score = 0 /\ ~call.result.overall.passed

\* C9 amended: the scenario gives BCE 1.5, MCF 0, CPO 0, none passed, and an
\* overall percent of 17 (round(0.5 / 3 * 100)), not passed.
C9_ScenarioScores ==
    C9_Scenario =>
        /\ call.result.bce.score = 150 /\ ~call.result.bce.passed
        /\ call.result.mcf.score = 0 /\ ~call.result.mcf.passed
        /\ call.result.cpo.score = 0 /\ ~call.result.cpo.passed
        /\ call.result.overall.score = 17 /\ ~call.result.overall.passed

\* C9 witness: the scorecard of the scenario has been generated.
C9_Witness ==
    /\ C9_Scenario
    /\ call.result.pulse_details.final_stage = 3
    /\ Len(call.result.pulse_details.missteps) = 2

\* C10: for final stages 1..5 the BCE score is 0, 0.75, 1.5, 2.25, 3
\* ((stage - 1) * 0.75), within [0, 3], and BCE passed holds exactly from
\* stage 4 on.
C10_BceScore ==
    (ScorecardDone /\ call.pulse_stage \in 1..5) =>
        /\ call.result.bce.score = <<0, 75, 150, 225, 300>>[call.pulse_stage]
        /\ 4 * call.result.bce.score = 300 * (call.pulse_stage - 1)
        /\ call.result.bce.score >= 0 /\ call.result.bce.score <= 300
        /\ call.result.bce.passed <=> call.pulse_stage >= 4

\* C10 witness: a scorecard for final stage 4, the first stage that passes.
C10_Witness ==
    /\ ScorecardDone
    /\ call.pulse_stage = 4
    /\ call.result.bce.score = 225
    /\ call.result.bce.passed

\* C11: for trust 0..10 and a misstep history of n records the MCF score is
\* max(0, base - min(0.5 n, 1.5)) with base 0, 1, 2, 3 for trust <= 3, 4..5,
\* 6..7, 8..10, and MCF passed holds exactly when the score is >= 2.
C11_McfScore ==
    (ScorecardDone /\ call.trust_score \in 0..10) =>
        LET n == Len(call.missteps)
            base == <<0, 0, 0, 0, 100, 100, 200, 200, 300, 300, 300>>[call.trust_score + 1]
            penalty == IF n >= 3 THEN 150 ELSE 50 * n
            expected == IF base - penalty < 0 THEN 0 ELSE base - penalty
        IN  /\ call.result.mcf.score = expected
            /\ call.result.mcf.passed <=> expected >= 200

\* C11 witness: trust 8 with 4 missteps, where the penalty is capped at 1.5.
C11_Witness ==
    /\ ScorecardDone
    /\ call.trust_score = 8
    /\ Len(call.missteps) = 4
    /\ call.result.mcf.score = 150
    /\ ~call.result.mcf.passed

\* C12: the CPO score is 3 for won, 1.5 for stalled, 0 for lost and 1 for
\* in_progress, and CPO passed holds exactly when the outcome is won.
C12_CpoScore ==
    ScorecardDone =>
        /\ call.sale_outcome = "won" => call.result.cpo.score = 300
        /\ call.sale_outcome = "stalled" => call.result.cpo.score = 150
        /\ call.sale_outcome = "lost" => call.result.cpo.score = 0
        /\ call.sale_outcome = "in_progress" => call.result.cpo.score = 100
        /\ call.result.cpo.passed <=> call.sale_outcome = "won"

\* C12 witness: a scorecard for the outcome stalled.
C12_Witness ==
    /\ ScorecardDone
    /\ call.sale_outcome = "stalled"
    /\ call.result.cpo.score = 150
    /\ ~call.result.cpo.passed

\* C13: for stage 1..5 and trust 0..10 the overall percent is the integer
\* nearest to ((bce + mcf + cpo) / 3) / 3 * 100, lies in 0..100, and overall
\* passed holds exactly when the percent is >= 70.
C13_OverallPercent ==
    (ScorecardDone /\ call.pulse_stage \in 1..5 /\ call.trust_score \in 0..10) =>
        LET total == call.result.bce.score + call.result.mcf.score
                     + call.result.cpo.score
            pct == call.result.overall.score
        IN  /\ 18 * pct - 9 <= 2 * total
            /\ 2 * total <= 18 * pct + 9
            /\ pct \in 0..100
            /\ call.result.overall.passed <=> pct >= 70

\* C13 witness: stage 5, won, MCF 0.5: 6.5 / 9 rounds up to 72 and passes.
C13_Witness ==
    /\ ScorecardDone
    /\ call.pulse_stage = 5
    /\ call.sale_outcome = "won"
    /\ call.result.mcf.score = 50
    /\ call.result.overall.score = 72
    /\ call.result.overall.passed

\* The ids of a list of misstep records, in order.
IdsOf(missteps) == [i \in 1..Len(missteps) |-> missteps[i].id]

\* C14: a misstep id is reported only inside its stage range:
\* pushy_early_close at stages 1..3, ignoring_needs at stages 1..2,
\* pressure_tactics at stages 1..5 (and there at every one of them when the
\* message matches); "Let's close this deal right now" at stage 2 yields
\* exactly one record, pushy_early_close with penalty -3.
C14_StageRange ==
    DetectDone =>
        LET ids == {call.result[i].id : i \in 1..Len(call.result)} IN
        /\ "pushy_early_close" \in ids => call.current_stage \in 1..3
        /\ "ignoring_needs" \in ids => call.current_stage \in 1..2
        /\ "pressure_tactics" \in ids => call.current_stage \in 1..5
        /\ (call.message = "You must decide, act now!" /\ call.current_stage \in 1..5)
               => "pressure_tactics" \in ids
        /\ call.message = "Let's close this deal right now" =>
               IF call.current_stage \in 1..3
               THEN /\ Len(call.result) = 1
                    /\ call.result[1].id = "pushy_early_close"
                    /\ call.result[1].penalty = -3
               ELSE call.result = <<>>

\* C14 witness: the pushy close at stage 2.
C14_Witness ==
    /\ DetectDone
    /\ call.message = "Let's close this deal right now"
    /\ call.current_stage = 2
    /\ IdsOf(call.result) = <<"pushy_early_close">>
    /\ call.result[1].penalty = -3

\* The entries of CRITICAL_MISSTEPS that apply at the call's stage and have
\* at least one pattern matching the lower-cased message.
C15_Expected ==
    {k \in 1..Len(CRITICAL_MISSTEPS) :
        /\ CRITICAL_MISSTEPS[k].min_stage <= call.current_stage
        /\ call.current_stage <= CRITICAL_MISSTEPS[k].max_stage
        /\ \E p \in 1..Len(CRITICAL_MISSTEPS[k].patterns) :
               re_search(CRITICAL_MISSTEPS[k].patterns[p], lower(call.message))}

\* C15: one detector call returns exactly one record for every applicable
\* misstep id with a matching pattern and no other record: the ids are
\* pairwise distinct and there are at most 3 records.
C15_OneRecordPerId ==
    DetectDone =>
        /\ {call.result[i].id : i \in 1..Len(call.result)}
               = {CRITICAL_MISSTEPS[k].id : k \in C15_Expected}
        /\ Len(call.result) = Cardinality(C15_Expected)
        /\ \A i, j \in 1..Len(call.result) :
               call.result[i].id = call.result[j].id => i = j
        /\ Len(call.result) <= 3

\* C15 witness: a message matching several pressure_tactics patterns yields
\* one pressure_tactics record.
C15_Witness ==
    /\ DetectDone
    /\ call.message = "Limited time: you will regret it, act now"
    /\ Cardinality({p \in 1..Len(CRITICAL_MISSTEPS[2].patterns) :
           re_search(CRITICAL_MISSTEPS[2].patterns[p], lower(call.message))}) >= 2
    /\ IdsOf(call.result) = <<"pressure_tactics">>

\* C16: the trust delta is +1 if new_stage > old_stage, plus 1 for every
\* detected behavior label holding a rewarded substring, plus the penalty of
\* every misstep record; the current trust score is not an input.
C16_TrustDelta ==
    TrustChangeDone =>
        LET rewarded == {i \in 1..Len(call.detected_behaviors) :
                            call.detected_behaviors[i] \in BehaviorLabels}
            three == {i \in 1..Len(call.missteps) :
                         call.missteps[i].id \in {"pushy_early_close", "pressure_tactics"}}
            two == {i \in 1..Len(call.missteps) : call.missteps[i].id = "ignoring_needs"}
        IN  call.result = (IF call.new_stage > call.current_stage THEN 1 ELSE 0)
                          + Cardinality(rewarded)
                          - 3 * Cardinality(three) - 2 * Cardinality(two)

\* C16 witness: a jump from stage 1 to stage 3 with two rewarded labels and
\* two missteps: 1 + 2 - 3 - 2 = -2.
C16_Witness ==
    /\ TrustChangeDone
    /\ call.current_stage = 1
    /\ call.new_stage = 3
    /\ Len(call.detected_behaviors) = 2
    /\ IdsOf(call.missteps) = <<"pressure_tactics", "ignoring_needs">>
    /\ call.result = -2

C18_LostSticky ==
    [][\A sid \in Sessions :
          (sale_state[sid] # <<>> /\ sale_state[sid][1].outcome = "lost")
              => (sale_state'[sid] # <<>> /\ sale_state'[sid][1].outcome = "lost")]_vars

\* The turn of session sid taken by a step, if any: it appends the trainee's
\* message and the reply to the conversation.
TurnStep(sid) == conversation'[sid] # conversation[sid]

FreshState ==
    [ history |-> <<>>,
      stage |-> 1,
      sale |-> [ trust_score |-> INITIAL_TRUST, outcome |-> "in_progress",
                 missteps |-> <<>>, total_missteps |-> 0 ] ]

\* The state one turn leaves when it runs alone on the state st: the turn
\* of the finished request q.
SerialTurn(st, q) ==
    LET t == TurnCompute(q.message, q.persona_type, q.ai_response,
                         st.history, st.stage, st.sale)
    IN  [ history |-> t.conversation_history,
          stage |-> t.current_stage,
          sale |-> SaleStateBlob(t) ]

AllDone == \A r \in Requests : requests[r].pc = "done"

\* C20: when two chat requests for one session overlap, the persisted stage,
\* trust score and misstep history at the end are those of processing the
\* two turns one after the other, in one order or the other.
C20_Serialized ==
    AllDone =>
        \E a, b \in Requests :
            /\ a # b
            /\ \E fin \in {SerialTurn(SerialTurn(FreshState, requests[a]), requests[b])} :
                  /\ StageOf("s1") = fin.stage
                  /\ TrustOf("s1") = fin.sale.trust_score
                  /\ MisstepsOf("s1") = fin.sale.missteps

\* The scoring state a session reaches when the turns recorded in its
\* conversation history run alone, one after the other, from a fresh session.
RECURSIVE RunAlone(_)
RunAlone(history) ==
    IF Len(history) < 2 THEN FreshState
    ELSE SerialTurn(RunAlone(SubSeq(history, 1, Len(history) - 2)),
                    [ message |-> history[Len(history) - 1].content,
                      persona_type |-> CHOOSE p \in Personas : TRUE,
                      ai_response |-> history[Len(history)].content ])

\* No request of session sid is between its first blob access and its answer.
Quiet(sid) ==
    \A r \in Requests :
        requests[r].pc \notin {"idle", "done"} => requests[r].session_id # sid

\* The blobs of session sid.
BlobsOf(sid) ==
    <<conversation[sid], pulse_state[sid], sale_state[sid], scorecard[sid],
      transcript[sid]>>

\* C21: under any interleaving of the turns of two sessions, a step of a
\* turn of one session leaves the other session's stage, trust score,
\* misstep history, outcome and scorecard unchanged, and between its turns a
\* session is in the state it reaches when its turns run alone.
C21_SessionIsolation ==
    /\ [](\A b \in AllSessions :
             Quiet(b) =>
                 \E alone \in {RunAlone(conversation[b])} :
                     /\ StageOf(b) = alone.stage
                     /\ TrustOf(b) = alone.sale.trust_score
                     /\ MisstepsOf(b) = alone.sale.missteps
                     /\ OutcomeOf(b) = alone.sale.outcome)
    /\ [][\A r \in Requests, b \in AllSessions :
             (requests'[r] # requests[r] /\ requests'[r].session_id # b)
                 => BlobsOf(b)' = BlobsOf(b)]_vars

\* C21 witness: both sessions have taken a turn, a turn of s1 is writing
\* its state, and s2 has advanced while s1 has been lost.
C21_Witness ==
    /\ turn_count["s1"] >= 1
    /\ turn_count["s2"] >= 1
    /\ requests["r1"].pc = "respond"
    /\ Quiet("s2")
    /\ StageOf("s2") = 2
    /\ OutcomeOf("s1") = "lost"

\* C22: the outcome does not depend on the misstep history: for the trust
\* score and stage of a call, every misstep history gives the outcome the
\* call returned.
C22_OutcomeIgnoresMissteps ==
    OutcomeDone =>
        \A other \in MisstepLists :
            determine_sale_outcome(call.trust_score, call.current_stage, other)
                = call.result

\* C22 witness: a sale won with four missteps on record.
C22_Witness ==
    /\ OutcomeDone
    /\ Len(call.missteps) = 4
    /\ call.trust_score = 7
    /\ call.current_stage = 5
    /\ call.result = "won"

\* C23: the stage detector's result depends on the last message and the
\* current stage only: the history of a call, the last message alone and the
\* last message after any other message all give the same result.
C23_LastMessageOnly ==
    (AnalyzeDone /\ Len(call.trainee_messages) >= 1) =>
        LET last == LatestOf(call) IN
        /\ analyze_pulse_stage_quick(<<last>>, call.current_stage) = call.result
        /\ \A m \in Messages :
               analyze_pulse_stage_quick(<<m, last>>, call.current_stage) = call.result

\* C23 witness: an earlier message that would advance from stage 1, followed
\* by one that does not: no advancement.
C23_Witness ==
    /\ AnalyzeDone
    /\ call.trainee_messages = <<"It sounds like you want better sleep.", "Hello there">>
    /\ call.current_stage = 1
    /\ analyze_pulse_stage_quick(<<"It sounds like you want better sleep.">>, 1).stage = 2
    /\ call.result = [stage |-> 1, behaviors |-> <<>>]

\* C24: the total_exchanges of the scorecard a concluding turn generates is
\* the number of trainee turns the session has taken, that turn included.
C24_TotalExchanges ==
    \A sid \in Sessions :
        ( /\ TurnDone(sid)
          /\ response.saleOutcome.status \in {"won", "lost"}
          /\ scorecard[sid] # <<>> )
            => scorecard[sid][1].pulse_details.total_exchanges = turn_count[sid]

\* C25: for a stage in 1..5 the scorecard generator returns a scorecard for
\* every outcome value; a value other than won, lost and stalled is scored
\* like in_progress.
C25_ScorecardTotal ==
    (call.fn = "generate_scorecard" /\ call.done /\ call.pulse_stage \in 1..5) =>
        /\ ~Raised(call.result)
        /\ call.sale_outcome \notin {"won", "lost", "stalled"} =>
               /\ call.result.cpo.score = 100
               /\ ~call.result.cpo.passed
               /\ \E unfinished \in {generate_scorecard("s1", call.pulse_stage,
                                         call.trust_score, "in_progress", call.missteps,
                                         call.conversation_history)} :
                      /\ call.result.cpo = unfinished.cpo
                      /\ call.result.overall = unfinished.overall

\* C25 witness: a scorecard for an outcome string the classifier never returns.
C25_Witness ==
    /\ call.fn = "generate_scorecard" /\ call.done
    /\ call.pulse_stage = 3
    /\ call.sale_outcome = "abandoned"
    /\ ~Raised(call.result)
    /\ call.result.cpo.score = 100

\* C26: every engine function returns a result and never raises, also for an
\* empty message list, a stage outside 1..5 or a negative trust score.
C26_NeverRaises ==
    call.done =>
        /\ "result" \in DOMAIN call
        /\ call.fn = "generate_scorecard" => ~Raised(call.result)
        /\ (call.fn = "analyze_pulse_stage_quick" /\ call.trainee_messages = <<>>)
               => call.result = [stage |-> call.current_stage, behaviors |-> <<>>]

\* C27: a session with no stored scoring state is at stage 1 with trust 5,
\* outcome in_progress and no missteps, and its first turn is scored from
\* exactly that state.
C27_InitialState ==
    [][\A sid \in Sessions :
          (pulse_state[sid] = <<>> /\ sale_state[sid] = <<>>) =>
              /\ StageOf(sid) = 1
              /\ TrustOf(sid) = 5
              /\ OutcomeOf(sid) = "in_progress"
              /\ MisstepsOf(sid) = <<>>
              /\ TurnStep(sid) =>
                     \E first \in {TurnCompute(
                                      conversation'[sid][Len(conversation'[sid]) - 1].content,
                                      CHOOSE p \in Personas : TRUE,
                                      conversation'[sid][Len(conversation'[sid])].content,
                                      conversation[sid], 1,
                                      [ trust_score |-> 5, outcome |-> "in_progress",
                                        missteps |-> <<>>, total_missteps |-> 0 ])} :
                         /\ sale_state'[sid] = <<SaleStateBlob(first)>>
                         /\ StageOf(sid)' = first.current_stage]_vars

\* C27 witness: the first turn of a session, with a message that changes
\* nothing, answers with the initial state.
C27_Witness ==
    /\ TurnDone("s1")
    /\ turn_count["s1"] = 1
    /\ response.pulseStage = 1
    /\ response.saleOutcome.trustScore = 5
    /\ response.saleOutcome.status = "in_progress"
    /\ response.saleOutcome.totalMissteps = 0

(***************************************************************************)
(* The session endpoints: session_start, session_complete, audio_chunk,    *)
(* feedback_session, and the trainer endpoint trainer_pulse_step.  Each    *)
(* handler is one action.  Clock readings (created_at, completed_at,       *)
(* updated_at) are left out of the documents.                              *)
(***************************************************************************)
Methods == {"OPTIONS", "POST", "GET"}

\* The environments of a deployment: nothing set; everything on; the
\* orchestrator and the trainer on in other spellings, audio processing
\* off; a value of TRAINING_ORCHESTRATOR_ENABLED that is not accepted.
Environments ==
    { Unset,
      [ TRAINING_ORCHESTRATOR_ENABLED |-> "true",
        PULSE_TRAINER_ENABLED |-> "true",
        AUDIO_PROCESSING_ENABLED |-> "true" ],
      [ TRAINING_ORCHESTRATOR_ENABLED |-> " Yes ",
        PULSE_TRAINER_ENABLED |-> "1",
        AUDIO_PROCESSING_ENABLED |-> "false" ],
      [ TRAINING_ORCHESTRATOR_ENABLED |-> "on",
        PULSE_TRAINER_ENABLED |-> "",
        AUDIO_PROCESSING_ENABLED |-> "true" ] }

\* How many messages a conversation may hold for audio_chunk to add to it.
MaxAudioMessages == 2

KnownUuids == {"123e4567-e89b-12d3-a456-426614174000"}

\* Bodies of session_start: not JSON, a JSON array, a persona with a valid
\* userId, an invalid userId and no persona.
StartBodies ==
    { [json_ok |-> FALSE, is_object |-> FALSE, persona |-> "", userId |-> ""],
      [json_ok |-> TRUE, is_object |-> FALSE, persona |-> "", userId |-> ""],
      [json_ok |-> TRUE, is_object |-> TRUE, persona |-> "Thinker",
       userId |-> "123e4567-e89b-12d3-a456-426614174000"],
      [json_ok |-> TRUE, is_object |-> TRUE, persona |-> "", userId |-> "not-a-uuid"] }

\* Bodies of session_complete: not JSON, {}, a JSON array, a sessionId
\* alone, a sessionId with a transcript that is a list (with one empty
\* item), a string, a blank string.
NoTranscript == [kind |-> "absent"]
CompleteBodies ==
    { [json_ok |-> FALSE, is_object |-> FALSE, sessionId |-> "", transcript |-> NoTranscript],
      [json_ok |-> TRUE, is_object |-> TRUE, sessionId |-> "", transcript |-> NoTranscript],
      [json_ok |-> TRUE, is_object |-> FALSE, sessionId |-> "", transcript |-> NoTranscript],
      [json_ok |-> TRUE, is_object |-> TRUE, sessionId |-> "s1", transcript |-> NoTranscript],
      [json_ok |-> TRUE, is_object |-> TRUE, sessionId |-> "s1",
       transcript |-> [kind |-> "list", items |-> <<"Trainee: Hello there", "">>]],
      [json_ok |-> TRUE, is_object |-> TRUE, sessionId |-> "s1",
       transcript |-> [kind |-> "string", text |-> "Trainee: Hello there"]],
      [json_ok |-> TRUE, is_object |-> TRUE, sessionId |-> "s1",
       transcript |-> [kind |-> "string", text |-> "  "]] }

\* _orchestrator_enabled: the value of TRAINING_ORCHESTRATOR_ENABLED,
\* stripped and lower-cased, is one of true, 1, yes.
orchestrator_enabled(value) == lower(strip(value)) \in {"true", "1", "yes"}

DisabledResponse ==
    [ status_code |-> 503,
      error |-> "Training orchestrator is disabled in this environment. "
                \o "Set TRAINING_ORCHESTRATOR_ENABLED to true to enable." ]

\* The head of a session endpoint with the flag checked before the method.
refusal_flag_first(method, allowed) ==
    IF ~orchestrator_enabled(environ.TRAINING_ORCHESTRATOR_ENABLED) THEN DisabledResponse
    ELSE IF method = "OPTIONS" THEN [status_code |-> 204]
    ELSE IF method # allowed THEN [status_code |-> 405, error |-> "Method not allowed"]
    ELSE NoResponse

\* The head of main in each session endpoint: OPTIONS, then the method,
\* then the flag.  NoResponse says that main goes on.
refusal(method, allowed) ==
    IF method = "OPTIONS" THEN [status_code |-> 204]
    ELSE IF method # allowed THEN [status_code |-> 405, error |-> "Method not allowed"]
    ELSE IF ~orchestrator_enabled(environ.TRAINING_ORCHESTRATOR_ENABLED) THEN DisabledResponse
    ELSE NoResponse

\* What no endpoint touches.
chat_only == <<pulse_state, sale_state, scorecard, scorecard_calls, call, requests, turn_count>>

\* The end of an endpoint request: its response and the record of what it
\* was given and which blobs it read and wrote (write_json calls, whether
\* or not they succeeded).
Reply(endpoint, method, input, reads, writes, http_response) ==
    /\ response' = http_response
    /\ last_request' = [ endpoint |-> endpoint, method |-> method,
                         input |-> input, reads |-> reads, writes |-> writes ]
    /\ UNCHANGED <<chat_only, environ>>

NoInput == [none |-> TRUE]

\* _extract_user_id, for a request without the X-PULSE-User-Id header.
extract_user_id(body) ==
    IF body.is_object /\ strip(body.userId) \in KnownUuids
    THEN <<strip(body.userId)>>
    ELSE <<>>

get_persona_display_name(persona) ==
    IF persona \in {"Director", "Relater", "Socializer", "Thinker"}
    THEN "The " \o persona
    ELSE persona

\* uuid4 gives an id no session has: one without any blob.
FreshIds ==
    { sid \in Sessions :
        /\ session_doc[sid] = <<>>
        /\ conversation[sid] = <<>>
        /\ transcript[sid] = <<>>
        /\ sale_state[sid] = <<>> }

\* session_start.main
SessionStart(method) ==
    \E refused \in {refusal(method, "POST")} :
      IF refused # NoResponse
      THEN /\ Reply("session_start", method, NoInput, <<>>, <<>>, refused)
           /\ UNCHANGED <<conversation, transcript, session_doc>>
      ELSE \E body \in StartBodies :
        IF ~body.json_ok
        THEN /\ Reply("session_start", method, body, <<>>, <<>>,
                      [status_code |-> 400, error |-> "Invalid JSON"])
             /\ UNCHANGED <<conversation, transcript, session_doc>>
        ELSE \E session_id \in FreshIds, write_ok \in BOOLEAN, avatar_ok \in BOOLEAN :
             \E persona \in {IF body.is_object /\ body.persona # ""
                             THEN body.persona ELSE "Relater"} :
             \E doc \in {[ session_id |-> session_id, persona |-> persona,
                           request |-> body, status |-> "active",
                           user_id |-> extract_user_id(body) ]} :
               /\ session_doc' = IF write_ok
                                 THEN [session_doc EXCEPT ![session_id] = <<doc>>]
                                 ELSE session_doc
               /\ Reply("session_start", method, body, <<>>, <<"session.json">>,
                        IF ~write_ok
                        THEN [status_code |-> 500, error |-> "Failed to start session"]
                        ELSE [ status_code |-> 200,
                               sessionId |-> session_id,
                               persona |-> [ type |-> persona,
                                             displayName |-> get_persona_display_name(persona) ],
                               avatarVideoUrl |-> IF avatar_ok THEN <<"video">> ELSE <<>> ])
               /\ UNCHANGED <<conversation, transcript>>

\* [str(x) for x in tx if str(x)]
RECURSIVE NonEmptyItems(_)
NonEmptyItems(tx) ==
    IF tx = <<>> THEN <<>>
    ELSE (IF Head(tx) = "" THEN <<>> ELSE <<Head(tx)>>) \o NonEmptyItems(Tail(tx))

\* _extract_transcript_lines
extract_transcript_lines(body) ==
    IF ~body.is_object THEN <<>>
    ELSE IF body.transcript.kind = "list" THEN NonEmptyItems(body.transcript.items)
    ELSE IF body.transcript.kind = "string" /\ strip(body.transcript.text) # ""
         THEN <<body.transcript.text>>
    ELSE <<>>

\* The completed document with the status left as it was.
complete_doc_keeps_status(existing, session_id) ==
    IF existing = <<>> THEN [session_id |-> session_id, status |-> "active"]
    ELSE existing[1]

\* doc = read_json(path) or {"session_id": session_id}; doc["status"] = "completed"
complete_doc(existing, session_id) ==
    IF existing = <<>> THEN [session_id |-> session_id, status |-> "completed"]
    ELSE [existing[1] EXCEPT !.status = "completed"]

\* session_complete.main.  The insert into the analytics database, whose
\* failure main ignores, is outside the blobs and has no part here.
SessionComplete(method) ==
    \E refused \in {refusal(method, "POST")} :
      IF refused # NoResponse
      THEN /\ Reply("session_complete", method, NoInput, <<>>, <<>>, refused)
           /\ UNCHANGED <<conversation, transcript, session_doc>>
      ELSE \E body \in CompleteBodies :
        IF ~body.json_ok \/ ~body.is_object \/ body.sessionId = ""
        THEN /\ Reply("session_complete", method, [body |-> body, write_ok |-> TRUE], <<>>, <<>>,
                      [ status_code |-> 400,
                        error |-> IF ~body.json_ok THEN "Invalid JSON"
                                  ELSE "Missing sessionId" ])
             /\ UNCHANGED <<conversation, transcript, session_doc>>
        ELSE \E write_ok \in BOOLEAN :
             \E session_id \in {body.sessionId} :
             \E doc \in {complete_doc(session_doc[session_id], session_id)} :
             \E lines \in {extract_transcript_lines(body)} :
               IF ~write_ok
               THEN /\ Reply("session_complete", method, [body |-> body, write_ok |-> FALSE],
                             <<"session.json">>, <<"session.json">>,
                             [status_code |-> 500, error |-> "Failed to complete session"])
                    /\ UNCHANGED <<conversation, transcript, session_doc>>
               ELSE \E transcript_write_ok \in (IF lines = <<>> THEN {TRUE} ELSE BOOLEAN) :
                    /\ session_doc' = [session_doc EXCEPT ![session_id] = <<doc>>]
                    /\ transcript' =
                         IF lines # <<>> /\ transcript_write_ok
                         THEN [transcript EXCEPT ![session_id] =
                                 <<[session_id |-> session_id, transcript |-> lines]>>]
                         ELSE transcript
                    /\ Reply("session_complete", method, [body |-> body, write_ok |-> TRUE],
                             <<"session.json">>,
                             IF lines # <<>>
                             THEN <<"session.json", "transcript.json">>
                             ELSE <<"session.json">>,
                             [status_code |-> 204])
                    /\ UNCHANGED conversation

\* _audio_processing_enabled
audio_processing_enabled(value) == lower(strip(value)) \in {"true", "1", "yes"}

\* What transcribe_audio gives: it raises, hears nothing, or hears a line.
SttOutcomes == {"raises", "", "Hello there"}

FallbackReply == "I'm sorry, I didn't catch that. Could you repeat?"

\* session_data.get("persona") or "Relater"
persona_of(doc) ==
    IF "persona" \in DOMAIN doc /\ doc.persona # "" THEN doc.persona ELSE "Relater"

AudioMessage(session_id, text) ==
    [status_code |-> 200, sessionId |-> session_id, partialTranscript |-> <<>>, message |-> text]

\* audio_chunk.main
AudioChunk(method) ==
    \E refused \in {refusal(method, "POST")} :
      IF refused # NoResponse
      THEN /\ Reply("audio_chunk", method, NoInput, <<>>, <<>>, refused)
           /\ UNCHANGED <<conversation, transcript, session_doc>>
      ELSE \E session_id \in Sessions \cup {""}, chunk \in {"missing", "empty", "data"} :
        \E input \in {[sessionId |-> session_id, chunk |-> chunk]} :
        IF session_id = "" \/ chunk # "data"
        THEN /\ Reply("audio_chunk", method, input, <<>>, <<>>,
                      [ status_code |-> 400,
                        error |-> IF session_id = "" THEN "Missing sessionId"
                                  ELSE IF chunk = "missing" THEN "Missing audio chunk"
                                  ELSE "Empty audio chunk" ])
             /\ UNCHANGED <<conversation, transcript, session_doc>>
        ELSE IF ~audio_processing_enabled(environ.AUDIO_PROCESSING_ENABLED)
        THEN /\ Reply("audio_chunk", method, input, <<>>, <<>>,
                      AudioMessage(session_id,
                          "Audio received but processing is disabled. Enable AUDIO_PROCESSING_ENABLED."))
             /\ UNCHANGED <<conversation, transcript, session_doc>>
        ELSE IF session_doc[session_id] = <<>>
        THEN /\ Reply("audio_chunk", method, input, <<"session.json">>, <<>>,
                      [ status_code |-> 404,
                        error |-> "Session " \o session_id \o " not found" ])
             /\ UNCHANGED <<conversation, transcript, session_doc>>
        ELSE \E deps_ok \in BOOLEAN, stt \in SttOutcomes :
          IF ~deps_ok \/ stt = "raises" \/ strip(stt) = ""
          THEN /\ Reply("audio_chunk", method, input, <<"session.json">>, <<>>,
                        AudioMessage(session_id,
                            IF ~deps_ok THEN "Audio processing dependencies not available"
                            ELSE "No speech detected in audio chunk"))
               /\ UNCHANGED <<conversation, transcript, session_doc>>
          ELSE \E llm_ok \in BOOLEAN, save_ok \in BOOLEAN, tts_ok \in BOOLEAN,
                  avatar_ok \in BOOLEAN, reply \in AIResponses :
               \E ai_response \in {IF llm_ok THEN reply ELSE FallbackReply} :
               /\ Len(conversation[session_id]) < MaxAudioMessages
               /\ conversation' =
                    IF save_ok
                    THEN [conversation EXCEPT ![session_id] =
                            @ \o << [role |-> "user", content |-> stt],
                                    [role |-> "assistant", content |-> ai_response] >>]
                    ELSE conversation
               /\ Reply("audio_chunk", method, input,
                        <<"session.json", "conversation.json">>, <<"conversation.json">>,
                        IF ~save_ok
                        THEN [status_code |-> 500, error |-> "Audio processing failed"]
                        ELSE [ status_code |-> 200,
                               sessionId |-> session_id,
                               partialTranscript |-> <<stt>>,
                               aiResponse |-> ai_response,
                               persona |-> persona_of(session_doc[session_id][1]),
                               avatarState |-> IF tts_ok THEN "speaking" ELSE "idle",
                               avatarVideo |-> avatar_ok ])
               /\ UNCHANGED <<transcript, session_doc>>

\* What the evaluator step of feedback_session meets: the flag off, no
\* prompt stored, a call that raises, a result.
EvaluatorOutcomes == {"off", "no_prompt", "raises", "result"}

\* The rubric of the feedback body: one row per component of the scorecard.
rubric_of(card) ==
    << [name |-> "Behavioral Mastery (BCE)", score |-> card.bce.score,
        passed |-> card.bce.passed, notes |-> card.bce.summary],
       [name |-> "Methodology Fidelity (MCF)", score |-> card.mcf.score,
        passed |-> card.mcf.passed, notes |-> card.mcf.summary],
       [name |-> "Conversion Outcome (CPO)", score |-> card.cpo.score,
        passed |-> card.cpo.passed, notes |-> card.cpo.summary] >>

\* feedback_session.main.  The analytics event and the readiness snapshot
\* go to the analytics database and have no part here.
FeedbackSession(method) ==
    \E refused \in {refusal(method, "GET")} :
      IF refused # NoResponse
      THEN /\ Reply("feedback_session", method, NoInput, <<>>, <<>>, refused)
           /\ UNCHANGED <<conversation, transcript, session_doc>>
      ELSE \E session_id \in Sessions \cup {""} :
        IF session_id = ""
        THEN /\ Reply("feedback_session", method, [sessionId |-> session_id],
                      <<>>, <<>>, [status_code |-> 400, error |-> "Missing sessionId"])
             /\ UNCHANGED <<conversation, transcript, session_doc>>
        ELSE IF session_doc[session_id] = <<>>
        THEN /\ Reply("feedback_session", method, [sessionId |-> session_id],
                      <<"session.json">>, <<>>,
                      [status_code |-> 404, error |-> "Session not found"])
             /\ UNCHANGED <<conversation, transcript, session_doc>>
        ELSE \E evaluator \in EvaluatorOutcomes :
             \E doc \in {session_doc[session_id][1]} :
             \E transcript_lines \in {IF transcript[session_id] = <<>> THEN <<>>
                                      ELSE transcript[session_id][1].transcript} :
               /\ Reply("feedback_session", method, [sessionId |-> session_id],
                        <<"session.json", "transcript.json", "scorecard.json">>
                          \o (IF evaluator # "off" /\ transcript_lines # <<>>
                              THEN <<"prompts">> ELSE <<>>),
                        <<>>,
                        [ status_code |-> 200,
                          artifacts |-> [transcript |-> transcript_lines],
                          session |-> [ sessionId |-> session_id,
                                        persona |-> IF "persona" \in DOMAIN doc
                                                    THEN <<doc.persona>> ELSE <<>>,
                                        status |-> doc.status ],
                          overallScore |-> IF scorecard[session_id] = <<>> THEN <<>>
                                           ELSE <<scorecard[session_id][1].overall.score>>,
                          rubric |-> IF scorecard[session_id] = <<>> THEN <<>>
                                     ELSE rubric_of(scorecard[session_id][1]),
                          scorecard |-> scorecard[session_id],
                          pulseEvaluator |-> evaluator = "result" /\ transcript_lines # <<>> ])
               /\ UNCHANGED <<conversation, transcript, session_doc>>

\* A JSON body of trainer_pulse_step.  kind is the JSON type of the body;
\* config, adaptive (config.adaptive_trainer), session and latest
\* (session.latest_answer) are "absent", "object" or "string" (a non-empty
\* JSON string).
TrainerBody(kind, config, adaptive, enabled, session, pulse_step, latest, learner_answer) ==
    [ json_ok |-> TRUE, kind |-> kind, config |-> config, adaptive |-> adaptive,
      enabled |-> enabled, session |-> session, pulse_step |-> pulse_step,
      latest |-> latest, learner_answer |-> learner_answer ]

TrainerBodies ==
    { [TrainerBody("object", "absent", "absent", FALSE, "absent", "", "absent", "")
          EXCEPT !.json_ok = FALSE],
      TrainerBody("object", "absent", "absent", FALSE, "absent", "", "absent", ""),
      TrainerBody("object", "object", "object", FALSE, "object", "Understand", "absent", ""),
      TrainerBody("object", "object", "object", TRUE, "object", "Understand", "object", "test"),
      TrainerBody("object", "object", "object", TRUE, "object", "", "absent", ""),
      TrainerBody("object", "string", "absent", FALSE, "object", "Probe", "absent", ""),
      TrainerBody("array", "absent", "absent", FALSE, "absent", "", "absent", ""),
      TrainerBody("null", "absent", "absent", FALSE, "absent", "", "absent", ""),
      TrainerBody("object", "object", "object", TRUE, "string", "", "absent", ""),
      TrainerBody("object", "object", "object", TRUE, "object", "Probe", "string", ""),
      TrainerBody("object", "object", "string", FALSE, "object", "Probe", "absent", "") }

\* What _call_openai_trainer does: it raises, returns JSON that is not an
\* object, or returns an output, with or without a change log to emit.
LlmOutcomes == {"raises", "not_object", "followup", "advance_emit"}

\* The parts every trainer output has.
TrainerOutput(mode, understanding_level, primary_error_type, brief_explanation, text, pulse_step, status, emit) ==
    [ status_code |-> 200,
      mode |-> mode,
      diagnosis |-> [ understanding_level |-> understanding_level,
                      primary_error_type |-> primary_error_type,
                      brief_explanation |-> brief_explanation ],
      next_question |-> [text |-> text, difficulty |-> "basic"],
      mastery_estimate |-> [pulse_step |-> pulse_step, status |-> status],
      trainer_change_log |-> [emit |-> emit] ]

\* The output of main when the trainer or the adaptive trainer is off.
static_evaluation(pulse_step, brief_explanation) ==
    TrainerOutput("static_evaluation", "developing", "other", brief_explanation,
                  <<>>, pulse_step, "not_started", FALSE)

\* The output of main when the call of the trainer model fails.
fallback(pulse_step, latest_answer) ==
    TrainerOutput("ask_followup",
                  IF latest_answer # "" THEN "developing" ELSE "weak",
                  "missing_depth",
                  "Fallback stub: unable to reach trainer model; treating this as a "
                  \o "practice turn on the current PULSE step.",
                  <<"What is one additional thing you would ask or say to improve your response for this step?">>,
                  pulse_step, "developing", FALSE)

\* An output of the trainer model.
llm_output(outcome, pulse_step) ==
    IF outcome = "followup"
    THEN TrainerOutput("ask_followup", "developing", "vague", "Be more specific.",
                       <<"What would you ask next?">>, pulse_step, "developing", FALSE)
    ELSE TrainerOutput("advance_step", "strong", "none", "Ready for the next step.",
                       <<>>, pulse_step, "mastered", TRUE)

\* main raised: the attribute lookup .get on a value that is not a JSON
\* object.  The Functions host answers such a request with status 500.
Unhandled == [status_code |-> 500, raised |-> "AttributeError"]

\* The lookups of main before the flag is read raise.
lookups_raise(body) ==
    \/ body.kind # "object"
    \/ body.session = "string"
    \/ body.session = "object" /\ body.latest = "string"

\* trainer_enabled_env in ("true", "1", "yes")
trainer_enabled(value) == lower(strip(value)) \in {"true", "1", "yes"}

\* main reaches the call of the trainer model.
calls_trainer_model(body, trainer_flag) ==
    /\ body.json_ok
    /\ ~lookups_raise(body)
    /\ trainer_enabled(trainer_flag)
    /\ body.config = "object" /\ body.adaptive = "object" /\ body.enabled

\* trainer_pulse_step.main after the method checks: the response for a
\* body, a value of PULSE_TRAINER_ENABLED and an outcome of the model call.
trainer_main(body, trainer_flag, outcome) ==
    IF ~body.json_ok THEN [status_code |-> 400, error |-> "Invalid JSON"]
    ELSE IF lookups_raise(body) THEN Unhandled
    ELSE
    LET pulse_step == IF body.session = "object" /\ body.pulse_step # ""
                      THEN body.pulse_step ELSE "Probe"
        latest_answer == IF body.session = "object" /\ body.latest = "object"
                         THEN body.learner_answer ELSE ""
    IN  IF ~trainer_enabled(trainer_flag)
        THEN static_evaluation(pulse_step,
                 "PULSE Trainer is disabled in this environment. "
                 \o "Enable PULSE_TRAINER_ENABLED to use adaptive training.")
        ELSE IF body.config = "object" /\ body.adaptive = "string" THEN Unhandled
        ELSE IF ~(body.config = "object" /\ body.adaptive = "object" /\ body.enabled)
        THEN static_evaluation(pulse_step,
                 "Static evaluation: adaptive trainer is disabled in this environment.")
        ELSE IF outcome \in {"raises", "not_object"}
        THEN fallback(pulse_step, latest_answer)
        ELSE llm_output(outcome, pulse_step)

\* trainer_pulse_step.main.  _maybe_log_trainer_change writes the change
\* log of an output that asks for it; a failure of that write is ignored.
TrainerPulseStep(method) ==
    IF method = "OPTIONS"
    THEN /\ Reply("trainer_pulse_step", method, NoInput, <<>>, <<>>,
                  [status_code |-> 204])
         /\ UNCHANGED <<conversation, transcript, session_doc>>
    ELSE IF method # "POST"
    THEN /\ Reply("trainer_pulse_step", method, NoInput, <<>>, <<>>,
                  [status_code |-> 405, error |-> "Method not allowed"])
         /\ UNCHANGED <<conversation, transcript, session_doc>>
    ELSE \E body \in TrainerBodies, outcome \in LlmOutcomes :
         \E output \in {trainer_main(body, environ.PULSE_TRAINER_ENABLED, outcome)} :
           /\ Reply("trainer_pulse_step", method, [ body |-> body,
                      llm |-> IF calls_trainer_model(body, environ.PULSE_TRAINER_ENABLED)
                              THEN outcome ELSE "not_called" ],
                    <<>>,
                    IF calls_trainer_model(body, environ.PULSE_TRAINER_ENABLED)
                       /\ outcome \notin {"raises", "not_object"}
                       /\ output.trainer_change_log.emit
                    THEN <<"trainer-change-logs">> ELSE <<>>,
                    output)
           /\ UNCHANGED <<conversation, transcript, session_doc>>

\* A session that session_start has opened with the body {}.
StartedDoc(session_id) ==
    [ session_id |-> session_id, persona |-> "Relater",
      request |-> [json_ok |-> TRUE, is_object |-> TRUE, persona |-> "", userId |-> ""],
      status |-> "active", user_id |-> <<>> ]

\* The endpoints start on an empty store, or on the store that
\* session_start and one chat turn that ends the sale have left for s1.
EndpointsInit ==
    /\ environ \in Environments
    /\ \/ EmptyStore
       \/ \E ai_response \in AIResponses :
          \E t \in {TurnCompute("That's why you must decide now", "Relater", ai_response,
                                <<>>, 1, FreshState.sale)} :
            /\ t.concluded
            /\ conversation = [sid \in AllSessions |->
                                  IF sid = "s1" THEN t.conversation_history ELSE <<>>]
            /\ pulse_state = [sid \in AllSessions |-> <<>>]
            /\ sale_state = [sid \in AllSessions |->
                                IF sid = "s1" THEN <<SaleStateBlob(t)>> ELSE <<>>]
            /\ scorecard = [sid \in AllSessions |->
                               IF sid = "s1"
                               THEN <<generate_scorecard("s1", t.current_stage, t.trust_score,
                                                         t.sale_outcome, t.all_missteps,
                                                         t.conversation_history)>>
                               ELSE <<>>]
            /\ transcript = [sid \in AllSessions |->
                                IF sid = "s1"
                                THEN <<[transcript |-> TranscriptLines(t.conversation_history)]>>
                                ELSE <<>>]
            /\ response = OkResponse("s1", ai_response, t)
            /\ scorecard_calls = [sid \in AllSessions |-> IF sid = "s1" THEN 1 ELSE 0]
            /\ call = NoCall
            /\ requests = [r \in Requests |-> Idle]
            /\ turn_count = [sid \in AllSessions |-> IF sid = "s1" THEN 1 ELSE 0]
            /\ session_doc = [sid \in AllSessions |->
                                 IF sid = "s1" THEN <<StartedDoc("s1")>> ELSE <<>>]
            /\ last_request = NoRequest

EndpointsNext ==
    \/ \E method \in Methods : SessionStart(method)
    \/ \E method \in Methods : SessionComplete(method)
    \/ \E method \in Methods : AudioChunk(method)
    \/ \E method \in Methods : FeedbackSession(method)
    \/ \E method \in Methods : TrainerPulseStep(method)

SpecEndpoints == EndpointsInit /\ [][EndpointsNext]_vars

(***************************************************************************)
(* Properties of the endpoints.                                            *)
(***************************************************************************)
SessionEndpoints == {"session_start", "session_complete", "audio_chunk", "feedback_session"}

\* The method each session endpoint serves.
AllowedMethod == [e \in SessionEndpoints |-> IF e = "feedback_session" THEN "GET" ELSE "POST"]

\* The blobs of every session.
AllBlobs == <<conversation, pulse_state, sale_state, scorecard, transcript, session_doc>>

\* The latest request went to a session endpoint with the method it serves.
ServedMethod ==
    /\ last_request.endpoint \in SessionEndpoints
    /\ last_request.method = AllowedMethod[last_request.endpoint]

\* C28 as stated: whenever TRAINING_ORCHESTRATOR_ENABLED is not literally
\* one of true, 1, yes, a POST to session_start, session_complete or
\* audio_chunk and a GET to feedback_session return 503 and read and write
\* no blob.
C28_Original ==
    (ServedMethod /\ environ.TRAINING_ORCHESTRATOR_ENABLED \notin {"true", "1", "yes"}) =>
        /\ response.status_code = 503
        /\ last_request.reads = <<>>
        /\ last_request.writes = <<>>

\* C28: when TRAINING_ORCHESTRATOR_ENABLED, stripped of surrounding blanks
\* and lower-cased, is not one of true, 1, yes, a POST to session_start,
\* session_complete or audio_chunk and a GET to feedback_session return 503,
\* read and write no blob and leave every blob as it was; and whatever the
\* flag is, OPTIONS gets 204 and any other method than the served one 405.
C28_DisabledRefused ==
    /\ [](last_request.endpoint \in SessionEndpoints =>
            /\ last_request.method = "OPTIONS" => response.status_code = 204
            /\ last_request.method \notin {"OPTIONS", AllowedMethod[last_request.endpoint]} =>
                   response.status_code = 405
            /\ (/\ ServedMethod
                /\ lower(strip(environ.TRAINING_ORCHESTRATOR_ENABLED)) \notin {"true", "1", "yes"}) =>
                   /\ response.status_code = 503
                   /\ last_request.reads = <<>>
                   /\ last_request.writes = <<>>)
    /\ [][(last_request'.endpoint \in SessionEndpoints /\ response'.status_code = 503) =>
             UNCHANGED AllBlobs]_vars

C28_Witness ==
    /\ last_request.endpoint = "feedback_session"
    /\ last_request.method = "GET"
    /\ environ.TRAINING_ORCHESTRATOR_ENABLED = "on"
    /\ response.status_code = 503
    /\ session_doc["s1"] # <<>>

\* config.adaptive_trainer.enabled is true in the body.
AdaptiveOn(body) == body.config = "object" /\ body.adaptive = "object" /\ body.enabled

\* C29: a POST to trainer_pulse_step with a valid JSON body returns 200;
\* the mode is static_evaluation and the trainer model is not called when
\* PULSE_TRAINER_ENABLED is off or config.adaptive_trainer.enabled is
\* false; when the call of the trainer model raises, the mode is
\* ask_followup with primary_error_type missing_depth and a next question.
C29_AlwaysOk ==
    (/\ last_request.endpoint = "trainer_pulse_step"
     /\ last_request.method = "POST"
     /\ last_request.input.body.json_ok) =>
        /\ response.status_code = 200
        /\ (\/ lower(strip(environ.PULSE_TRAINER_ENABLED)) \notin {"true", "1", "yes"}
            \/ ~AdaptiveOn(last_request.input.body)) =>
               /\ response.mode = "static_evaluation"
               /\ last_request.input.llm = "not_called"
        /\ last_request.input.llm = "raises" =>
               /\ response.mode = "ask_followup"
               /\ response.diagnosis.primary_error_type = "missing_depth"
               /\ response.next_question.text # <<>>

\* The latest request is a POST to session_complete, with the orchestrator
\* enabled, whose body has a sessionId and no transcript.
CompleteWithoutTranscript ==
    /\ last_request.endpoint = "session_complete"
    /\ last_request.method = "POST"
    /\ lower(strip(environ.TRAINING_ORCHESTRATOR_ENABLED)) \in {"true", "1", "yes"}
    /\ last_request.input.body.json_ok
    /\ last_request.input.body.is_object
    /\ last_request.input.body.sessionId # ""
    /\ last_request.input.body.transcript = NoTranscript

\* What session_complete is to leave behind: the document completed,
\* written once, no other blob written, and status 204.
Completed ==
    /\ session_doc[last_request.input.body.sessionId] # <<>>
    /\ session_doc[last_request.input.body.sessionId][1].status = "completed"
    /\ last_request.writes = <<"session.json">>
    /\ response.status_code = 204

\* C30 as stated: with the orchestrator enabled, session_complete for a
\* request with a sessionId and no transcript sets the status of the session
\* document to completed, writes the document exactly once and returns 204.
C30_Original == CompleteWithoutTranscript => Completed

\* C30: with the orchestrator enabled, session_complete for a request with
\* a sessionId and no transcript, when the write of the session document
\* succeeds, sets the status of the document to completed, writes it
\* exactly once and returns 204, and it leaves the transcript as it was;
\* when the write fails it returns 500 and leaves the document as it was.
C30_CompletedOnce ==
    /\ []((CompleteWithoutTranscript /\ last_request.input.write_ok) => Completed)
    /\ []((CompleteWithoutTranscript /\ ~last_request.input.write_ok) =>
              response.status_code = 500)
    /\ [][CompleteWithoutTranscript' =>
             /\ transcript' = transcript
             /\ ~last_request'.input.write_ok => session_doc' = session_doc]_vars

C30_Witness ==
    /\ CompleteWithoutTranscript
    /\ last_request.input.write_ok
    /\ response.status_code = 204
    /\ session_doc["s1"][1].status = "completed"
    /\ "persona" \in DOMAIN session_doc["s1"][1]

\* C31: for a stage 1..5, the behaviors the stage detector returns are
\* non-empty exactly when it advances the stage, and then they are the one
\* label of the stage advanced to, the next stage; when the message list is
\* empty or the last message matches no pattern of the next stage, it
\* returns the current stage and no behaviors.
C31_BehaviorsIffAdvance ==
    (AnalyzeDone /\ call.current_stage \in DOMAIN PULSE_STAGES) =>
        /\ (call.result.behaviors # <<>>) <=> (call.result.stage # call.current_stage)
        /\ call.result.behaviors # <<>> =>
               /\ call.result.stage = call.current_stage + 1
               /\ call.result.behaviors = <<stage_patterns[call.current_stage + 1].behavior>>
        /\ (\/ Len(call.trainee_messages) = 0
            \/ call.current_stage + 1 \notin DOMAIN stage_patterns
            \/ ~StagePatternMatches(call.current_stage + 1, lower(LatestOf(call)))) =>
               call.result = [stage |-> call.current_stage, behaviors |-> <<>>]

\* C31 witness: an advance from stage 2 to stage 3 with the label of stage 3.
C31_Witness ==
    /\ AnalyzeDone
    /\ call.current_stage = 2
    /\ call.result.stage = 3
    /\ Len(call.result.behaviors) = 1
    /\ call.result.behaviors[1] = stage_patterns[3].behavior
    /\ call.result.behaviors[1] # stage_patterns[2].behavior

C34_MisstepsAtOldStage ==
    [][\A sid \in Sessions :
          (TurnStep(sid) /\ "saleOutcome" \in DOMAIN response') =>
              LET n == Len(conversation'[sid])
                  message == conversation'[sid][n - 1].content
                  old_stage == StageOf(sid)
                  this_turn == response'.saleOutcome.misstepsThisTurn
                  ids == {this_turn[i] : i \in 1..Len(this_turn)}
              IN  /\ \A k \in 1..Len(CRITICAL_MISSTEPS) :
                        CRITICAL_MISSTEPS[k].id \in ids <=>
                            /\ CRITICAL_MISSTEPS[k].min_stage <= old_stage
                            /\ old_stage <= CRITICAL_MISSTEPS[k].max_stage
                            /\ MisstepPatternMatches(k, lower(message))
                  /\ (old_stage = 3 /\ message = "I'd recommend you buy today") =>
                        /\ StageOf(sid)' = 4
                        /\ this_turn = <<"pushy_early_close">>
                        /\ Len(MisstepsOf(sid)') = Len(MisstepsOf(sid)) + 1
                        /\ MisstepsOf(sid)'[Len(MisstepsOf(sid)')].penalty = -3
                        /\ TrustOf(sid)' = Max(0, Min(10, TrustOf(sid) - 1))]_vars

\* C34 witness: the third turn takes the session from stage 3 to stage 4
\* with the pushy close, and the trust score from 9 to 8.
C34_Witness ==
    /\ TurnDone("s1")
    /\ turn_count["s1"] = 3
    /\ conversation["s1"][5].content = "I'd recommend you buy today"
    /\ response.pulseStage = 4
    /\ response.saleOutcome.misstepsThisTurn = <<"pushy_early_close">>
    /\ response.saleOutcome.trustScore = 8
    /\ response.saleOutcome.totalMissteps = 1

\* One turn of a replay: the scoring state after the turn, and the gains so
\* far with what the turn adds to the trust score before penalties, its
\* trust change less the penalties of its missteps.
GainStep(prev, message, ai_response) ==
    CHOOSE r \in { [ st |-> [ history |-> t.conversation_history,
                              stage |-> t.current_stage,
                              sale |-> SaleStateBlob(t) ],
                     gains |-> prev.gains
                               + (t.trust_change - SumPenalties(t.current_missteps)) ] :
                   t \in {TurnCompute(message, CHOOSE p \in Personas : TRUE, ai_response,
                                      prev.st.history, prev.st.stage, prev.st.sale)} } : TRUE

\* The turns recorded in a conversation history, run one after the other
\* from a fresh session.
RECURSIVE ReplayGains(_)
ReplayGains(history) ==
    IF Len(history) < 2 THEN [st |-> FreshState, gains |-> 0]
    ELSE CHOOSE r \in { GainStep(prev, history[Len(history) - 1].content,
                                 history[Len(history)].content) :
                        prev \in {ReplayGains(SubSeq(history, 1, Len(history) - 2))} } : TRUE

\* What the turns of a conversation history have added to the trust score
\* before penalties.
GainsOf(history) == ReplayGains(history).gains

\* C35: the trust score goes up only on a turn that advances the stage; a
\* turn's trust change before penalties is +2 when it advances the stage
\* and 0 when it does not; and the gains of all turns of a session add up
\* to 2 * (current stage - 1), at most 8.
C35_GainsFollowStage ==
    /\ [](\A sid \in Sessions :
             \E gains \in {GainsOf(conversation[sid])} :
                 /\ gains = 2 * (StageOf(sid) - 1)
                 /\ gains <= 8)
    /\ [][\A sid \in Sessions :
             TurnStep(sid) =>
                 \E t \in {TurnCompute(
                              conversation'[sid][Len(conversation'[sid]) - 1].content,
                              CHOOSE p \in Personas : TRUE,
                              conversation'[sid][Len(conversation'[sid])].content,
                              conversation[sid], StageOf(sid),
                              get_sale_state_from_session(sid))} :
                     /\ TrustOf(sid)' > TrustOf(sid) => StageOf(sid)' = StageOf(sid) + 1
                     /\ t.trust_change - SumPenalties(t.current_missteps) =
                            IF StageOf(sid)' > StageOf(sid) THEN 2 ELSE 0
                     /\ TrustOf(sid)' =
                            Max(0, Min(10, TrustOf(sid) + t.trust_change))]_vars

\* C35 witness: a session at stage 5 after four advances and a misstep.
C35_Witness ==
    /\ TurnDone("s1")
    /\ StageOf("s1") = 5
    /\ Len(MisstepsOf("s1")) = 1
    /\ turn_count["s1"] = 5
    /\ GainsOf(conversation["s1"]) = 8
    /\ TrustOf("s1") = 10

\* C36: every scorecard main stores for a turn with the outcome won has
\* final stage 5, BCE = 3 passed, CPO = 3 passed, MCF >= 0.5, an overall
\* percentage of at least 72 and overall passed.
C36_WonScorecard ==
    \A sid \in Sessions :
        (/\ TurnDone(sid)
         /\ response.saleOutcome.status = "won") =>
            /\ scorecard[sid] # <<>>
            /\ \E card \in {scorecard[sid][1]} :
                  /\ card.pulse_details.sale_outcome = "won"
                  /\ card.pulse_details.final_stage = 5
                  /\ card.pulse_details.trust_score = response.saleOutcome.trustScore
                  /\ Len(card.pulse_details.missteps) = response.saleOutcome.totalMissteps
                  /\ card.bce.score = 300 /\ card.bce.passed
                  /\ card.cpo.score = 300 /\ card.cpo.passed
                  /\ card.mcf.score >= 50
                  /\ card.overall.score >= 72
                  /\ card.overall.passed

\* C36 witness: a sale won at trust 8 after three missteps: MCF is 1.5.
C36_Witness ==
    /\ TurnDone("s1")
    /\ response.saleOutcome.status = "won"
    /\ response.saleOutcome.totalMissteps = 3
    /\ scorecard["s1"][1].mcf.score = 150
    /\ ~scorecard["s1"][1].mcf.passed
    /\ scorecard["s1"][1].overall.score = 83

\* C37: every scorecard main stores for a turn with the outcome lost has
\* MCF = 0, CPO = 0 failed, an overall percentage of at most 33 and overall
\* passed false, at whatever stage and after whatever missteps it was lost.
C37_LostScorecard ==
    \A sid \in Sessions :
        (/\ TurnDone(sid)
         /\ response.saleOutcome.status = "lost") =>
            /\ scorecard[sid] # <<>>
            /\ \E card \in {scorecard[sid][1]} :
                  /\ card.pulse_details.sale_outcome = "lost"
                  /\ card.pulse_details.final_stage = response.pulseStage
                  /\ card.pulse_details.trust_score <= 2
                  /\ card.mcf.score = 0 /\ ~card.mcf.passed
                  /\ card.cpo.score = 0 /\ ~card.cpo.passed
                  /\ card.overall.score <= 33
                  /\ ~card.overall.passed

\* C37 witness: a sale lost at stage 5, where BCE alone gives 33 percent.
C37_Witness ==
    /\ TurnDone("s1")
    /\ response.saleOutcome.status = "lost"
    /\ response.pulseStage = 5
    /\ scorecard["s1"][1].bce.score = 300
    /\ scorecard["s1"][1].overall.score = 33

\* C38: after a turn whose outcome is won or lost, the stored scorecard's
\* pulse_details hold the stage, trust score, outcome and misstep ids the
\* session store holds after that same turn.
C38_DetailsMatchStore ==
    \A sid \in Sessions :
        (/\ TurnDone(sid)
         /\ response.saleOutcome.status \in {"won", "lost"}) =>
            /\ scorecard[sid] # <<>>
            /\ \E details \in {scorecard[sid][1].pulse_details} :
                  /\ details.final_stage = StageOf(sid)
                  /\ details.trust_score = TrustOf(sid)
                  /\ details.sale_outcome = OutcomeOf(sid)
                  /\ details.missteps =
                        [k \in 1..Len(MisstepsOf(sid)) |-> MisstepsOf(sid)[k].id]

\* C39: the stored stage of a session never decreases from one turn to the
\* next, also when a turn's read of the stored stage fails and the turn
\* works with stage 1.
C39_StoredStageNeverDecreases ==
    [][\A sid \in Sessions : StageOf(sid)' >= StageOf(sid)]_vars

\* The blobs of the chat handler: history, stage, trust score with misstep
\* history and outcome, scorecard and transcript of every session.
ChatBlobs == <<conversation, pulse_state, sale_state, scorecard, transcript>>

====
